---- MODULE Spec2Model ----
(***************************************************************************)
(* A model of the BPMN migration analyzer (src/bpmn_migration.py).         *)
(*                                                                         *)
(* Strings are sequences of one-character strings, so that the string      *)
(* operations of the code (substring tests, the regular expression of the  *)
(* variable extractor, startswith, lower) are computed and not assumed.    *)
(* A document is an XML tree of nodes [tag, attrs, text, kids].            *)
(*                                                                         *)
(* The specifications:                                                       *)
(*   SpecExpr  one call of extract_variables_from_expression followed by   *)
(*             one call of validate_expression_syntax on every string up   *)
(*             to MaxLen characters (and some longer samples);             *)
(*   Spec      runs of BPMNAnalyzer.analyze() on a bounded family of       *)
(*             documents, one step per rule group;                         *)
(*   SpecMain  main(): the command line, analyze(), print_report() and the *)
(*             exporters, up to the exit status;                           *)
(*   SpecApi   a caller of one BPMNAnalyzer: analyze() and the exporters   *)
(*             in any order;                                               *)
(*   SpecOrder a caller of one BPMNAnalyzer: parse() and the validate_*    *)
(*             methods in any order;                                       *)
(*   SpecUpload the upload handler of src/app.py serving two requests      *)
(*             concurrently.                                               *)
(***************************************************************************)
EXTENDS Integers, Sequences, FiniteSets, TLC

VARIABLES
    doc,                \* the input file: [wellformed, root]
    root,               \* self.root: the parsed tree, or NoNode
    pc,                 \* position of the run inside analyze()
    issues,             \* self.issues
    statistics,         \* self.statistics
    process_variables,  \* self.process_variables
    result,             \* the value analyze() returned
    reports,            \* the values returned by the runs finished so far
    run,                \* number of the current run (a fresh BPMNAnalyzer each)
    expr,               \* SpecExpr: the expression string handed to the calls
    prior,              \* the analyzer's lists before the last call or rule group
    ret,                \* SpecExpr: what extract_variables_from_expression returned
    argv,               \* SpecMain: sys.argv[1:]
    exit_status,        \* SpecMain: <<>> while main() runs, then <<status>>
    outputs,            \* the files the exporters wrote: name -> content
    calls,              \* SpecApi: the methods called on the analyzer so far
                        \* (SpecOrder: the set of validation methods called)
    uploads,            \* SpecUpload: the upload folder: file name -> document
    requests            \* SpecUpload: the requests being handled: id -> local state

\* what only main(), the callers of the exporters and the upload handler use
env == <<argv, exit_status, outputs, calls, uploads, requests>>

vars == <<doc, root, pc, issues, statistics, process_variables, result,
          reports, run, expr, prior, ret, env>>

----------------------------------------------------------------------------
(* Bounds of the model.                                                    *)

\* longest string enumerated exhaustively in SpecExpr
MaxLen == 5

\* most elements in the process of a document
MaxElems == 2

\* number of times the same file is analysed
MaxRuns == 2

\* number of method calls a caller makes on one analyzer in SpecApi
MaxCalls == 3

----------------------------------------------------------------------------
(* Strings.                                                                *)

\* Python's None: a value no string equals (strings hold single characters)
None == <<"<None>">>

\* Python truthiness of an optional string: neither None nor ""
Truthy(v) == v # None /\ v # <<>>

\* `sub in s`
Contains(s, sub) ==
    \E i \in 1..(Len(s) - Len(sub) + 1) : SubSeq(s, i, i + Len(sub) - 1) = sub

\* s.startswith(prefix)
StartsWith(s, prefix) ==
    Len(s) >= Len(prefix) /\ SubSeq(s, 1, Len(prefix)) = prefix

\* the characters Python's \s matches among those the model uses
Whitespace == {" ", "\t", "\n", "\r", "\f"}

\* str.strip(): leading and trailing whitespace removed
RECURSIVE LStrip(_)
LStrip(s) ==
    IF s # <<>> /\ Head(s) \in Whitespace THEN LStrip(Tail(s)) ELSE s

RECURSIVE RStrip(_)
RStrip(s) ==
    IF s # <<>> /\ s[Len(s)] \in Whitespace
    THEN RStrip(SubSeq(s, 1, Len(s) - 1)) ELSE s

Strip(s) == RStrip(LStrip(s))

m_dollar == <<"$","{">>
m_hash == <<"#","{">>
m_close == <<"}">>

s_unknown == <<"u","n","k","n","o","w","n">>
s_Unnamed == <<"U","n","n","a","m","e","d">>

----------------------------------------------------------------------------
(* Issues.                                                                 *)

Severity == {"CRITICAL", "WARNING", "INFO"}

MigrationIssue(severity, category, element_id, element_name, message, details) ==
    [severity |-> severity, category |-> category, element_id |-> element_id,
     element_name |-> element_name, message |-> message, details |-> details]

\* self is the part of the analyzer a rule group writes:
\* [issues, process_variables, raised]; raised is set when an exception
\* leaves the rule group, and nothing is appended after it.
add_issue(self, severity, category, element_id, element_name, message, details) ==
    [self EXCEPT !.issues = Append(@,
        MigrationIssue(severity, category, element_id, element_name, message, details))]

----------------------------------------------------------------------------
(* Expression validation.                                                  *)

\* first index k >= i with s[k] = "}", or 0
FirstClose(s, i) ==
    IF \E k \in i..Len(s) : s[k] = "}"
    THEN CHOOSE k \in i..Len(s) : s[k] = "}" /\ \A l \in i..(k - 1) : s[l] # "}"
    ELSE 0

\* re.findall(r'[$#]\{([^}]+)\}', s) scanning from position i: the captured
\* groups of the leftmost non-overlapping matches
RECURSIVE FindAllFrom(_, _)
FindAllFrom(s, i) ==
    IF i > Len(s) THEN <<>>
    ELSE IF s[i] \in {"$", "#"} /\ i + 1 <= Len(s) /\ s[i + 1] = "{"
         THEN LET j == FirstClose(s, i + 2)
              IN  IF j > i + 2
                  THEN <<SubSeq(s, i + 2, j - 1)>> \o FindAllFrom(s, j + 1)
                  ELSE FindAllFrom(s, i + 1)
         ELSE FindAllFrom(s, i + 1)

\* the characters of the class [\.\[\(\s]
SplitChars == {".", "[", "("} \cup Whitespace

\* re.split(r'[\.\[\(\s]', m)[0]
SplitHead(m) ==
    IF \E k \in 1..Len(m) : m[k] \in SplitChars
    THEN LET k == CHOOSE k \in 1..Len(m) :
                    m[k] \in SplitChars /\ \A l \in 1..(k - 1) : m[l] \notin SplitChars
         IN  SubSeq(m, 1, k - 1)
    ELSE m

\* mutant: the empty name is kept
extract_keep_empty(expression) ==
    IF ~Truthy(expression) THEN {}
    ELSE LET matches == FindAllFrom(expression, 1)
         IN  {SplitHead(matches[i]) : i \in 1..Len(matches)}

extract_variables_from_expression(expression) ==
    IF ~Truthy(expression) THEN {}
    ELSE LET matches == FindAllFrom(expression, 1)
         IN  {SplitHead(matches[i]) : i \in 1..Len(matches)} \ {<<>>}

IssueLegacy(expression, element_id, element_name, context) ==
    MigrationIssue("CRITICAL", "Expression", element_id, element_name,
        <<"JUEL/UEL expression detected in ", context>>,
        <<"Expression '", expression,
          "' uses Camunda 7 syntax. Must be converted to FEEL in Camunda 8. Example: '${myVar}' -> '=myVar'">>)

IssueMalformed(expression, element_id, element_name, context) ==
    MigrationIssue("CRITICAL", "Expression", element_id, element_name,
        <<"Malformed expression in ", context>>,
        <<"Expression '", expression, "' appears to be incomplete">>)

\* mutant: the extracted variables are not merged into the variable set
validate_expression_no_merge(self, expression, element_id, element_name, context) ==
    IF ~Truthy(expression) THEN self
    ELSE LET s2 == IF Contains(expression, m_dollar) \/ Contains(expression, m_hash)
                   THEN [self EXCEPT !.issues = Append(@,
                            IssueLegacy(expression, element_id, element_name, context))]
                   ELSE self
         IN  IF (Contains(expression, m_dollar) /\ ~Contains(expression, m_close))
                \/ (Contains(expression, m_hash) /\ ~Contains(expression, m_close))
             THEN [s2 EXCEPT !.issues = Append(@,
                      IssueMalformed(expression, element_id, element_name, context))]
             ELSE s2

\* mutant: the malformed check looks for a closing brace after the marker
validate_expression_strict(self, expression, element_id, element_name, context) ==
    IF ~Truthy(expression) THEN self
    ELSE LET s1 == [self EXCEPT !.process_variables =
                        @ \cup extract_variables_from_expression(expression)]
             s2 == IF Contains(expression, m_dollar) \/ Contains(expression, m_hash)
                   THEN [s1 EXCEPT !.issues = Append(@,
                            IssueLegacy(expression, element_id, element_name, context))]
                   ELSE s1
         IN  IF \E i \in 1..(Len(expression) - 1) :
                    /\ SubSeq(expression, i, i + 1) \in {m_dollar, m_hash}
                    /\ FirstClose(expression, i + 2) = 0
             THEN [s2 EXCEPT !.issues = Append(@,
                      IssueMalformed(expression, element_id, element_name, context))]
             ELSE s2

validate_expression_syntax(self, expression, element_id, element_name, context) ==
    IF ~Truthy(expression) THEN self
    ELSE LET s1 == [self EXCEPT !.process_variables =
                        @ \cup extract_variables_from_expression(expression)]
             s2 == IF Contains(expression, m_dollar) \/ Contains(expression, m_hash)
                   THEN [s1 EXCEPT !.issues = Append(@,
                            IssueLegacy(expression, element_id, element_name, context))]
                   ELSE s1
         IN  IF (Contains(expression, m_dollar) /\ ~Contains(expression, m_close))
                \/ (Contains(expression, m_hash) /\ ~Contains(expression, m_close))
             THEN [s2 EXCEPT !.issues = Append(@,
                      IssueMalformed(expression, element_id, element_name, context))]
             ELSE s2

----------------------------------------------------------------------------
(* The document: an ElementTree of nodes.                                  *)
(*   tag    the qualified name, written prefix:local ("bpmn:serviceTask")  *)
(*   attrs  a function from attribute names to strings; the attributes of  *)
(*          the engine namespace are written "camunda:<local>", those of   *)
(*          no namespace by their local name                               *)
(*   text   the text of the node (the empty string when it has none)       *)
(*   kids   the child nodes in document order                              *)

EmptyDict == [x \in {} |-> x]

\* nothing of main(), of the exporters' callers or of the upload handler is in use
EnvIdle ==
    /\ argv = <<>>
    /\ exit_status = <<>>
    /\ outputs = EmptyDict
    /\ calls = <<>>
    /\ uploads = EmptyDict
    /\ requests = EmptyDict

Node(tag, attrs, text, kids) ==
    [tag |-> tag, attrs |-> attrs, text |-> text, kids |-> kids]

\* the result of find() when nothing matches (None)
NoNode == Node("", EmptyDict, <<>>, <<>>)

IsNode(n) == n.tag # ""

NoDoc == [wellformed |-> FALSE, root |-> NoNode]

\* element.get(name)
Get(e, name) == IF name \in DOMAIN e.attrs THEN e.attrs[name] ELSE None

\* element.get(name, default)
GetOr(e, name, default) ==
    IF name \in DOMAIN e.attrs THEN e.attrs[name] ELSE default

\* all descendants of the nodes of a sequence, in document order
RECURSIVE Descendants(_)
Descendants(ks) ==
    IF ks = <<>> THEN <<>>
    ELSE <<Head(ks)>> \o Descendants(Head(ks).kids) \o Descendants(Tail(ks))

\* element.findall('.//*')
findall_any(e) == Descendants(e.kids)

\* element.findall('.//<tag>')
findall_desc(e, tag) == SelectSeq(Descendants(e.kids), LAMBDA n : n.tag = tag)

\* element.findall('<tag>'): the children with that tag
findall(e, tag) == SelectSeq(e.kids, LAMBDA n : n.tag = tag)

\* element.find('<tag>'): the first child with that tag, or None
find(e, tag) ==
    LET found == findall(e, tag)
    IN  IF found = <<>> THEN NoNode ELSE Head(found)

\* ElementPath rejects the path ".//<tag>[@id='<id>']" when the identifier
\* holds a quote: the predicate no longer tokenises as @id='...'
\* (SyntaxError: invalid predicate)
XPathRaises(id) == \E i \in 1..Len(id) : id[i] = "'"

\* root.find(".//<tag>[@id='<id>']"), for an identifier the path accepts
find_by_id(e, tag, id) ==
    LET found == SelectSeq(findall_desc(e, tag), LAMBDA n : Get(n, "id") = id)
    IN  IF found = <<>> THEN NoNode ELSE Head(found)

s_NoneText == <<"N","o","n","e">>

\* the text an f-string puts for a value: str(None) is "None"
Fmt(v) == IF v = None THEN s_NoneText ELSE v

UpperCase == <<"A","B","C","D","E","F","G","H","I","J","K","L","M",
               "N","O","P","Q","R","S","T","U","V","W","X","Y","Z">>
LowerCase == <<"a","b","c","d","e","f","g","h","i","j","k","l","m",
               "n","o","p","q","r","s","t","u","v","w","x","y","z">>

LowerChar(c) ==
    IF \E k \in 1..Len(UpperCase) : UpperCase[k] = c
    THEN LowerCase[CHOOSE k \in 1..Len(UpperCase) : UpperCase[k] = c]
    ELSE c

\* str.lower()
Lower(s) == [i \in 1..Len(s) |-> LowerChar(s[i])]

----------------------------------------------------------------------------
(* Rule groups.  Every rule group only appends to self.issues and adds to  *)
(* self.process_variables, so the effect of a loop body is computed on a   *)
(* fresh self and joined to what came before; a raised exception ends the  *)
(* rule group (and the run) with what was appended before it.              *)

Fresh == [issues |-> <<>>, process_variables |-> {}, raised |-> FALSE]

Raise == [issues |-> <<>>, process_variables |-> {}, raised |-> TRUE]

\* a then b, unless a raised
Join(a, b) ==
    IF a.raised THEN a
    ELSE [issues |-> a.issues \o b.issues,
          process_variables |-> a.process_variables \cup b.process_variables,
          raised |-> b.raised]

\* the effects of the iterations of a loop, in order
RECURSIVE JoinAll(_)
JoinAll(effects) ==
    IF effects = <<>> THEN Fresh
    ELSE Join(Head(effects), JoinAll(Tail(effects)))

s_root == <<"r","o","o","t">>
s_BPMN_Document == <<"B","P","M","N"," ","D","o","c","u","m","e","n","t">>
s_BPMN_20100524 == <<"B","P","M","N","/","2","0","1","0","0","5","2","4">>

validate_namespaces(r) ==
    IF IsNode(r)
    THEN LET bpmn_ns == Get(r, "xsi:schemaLocation")
         IN  IF ~Truthy(bpmn_ns) \/ ~Contains(bpmn_ns, s_BPMN_20100524)
             THEN add_issue(Fresh, "WARNING", "BPMN", s_root, s_BPMN_Document,
                      <<"BPMN 2.0 namespace may be incorrect or missing">>,
                      <<"Ensure BPMN uses correct BPMN 2.0 namespace.">>)
             ELSE Fresh
    ELSE Fresh

s_external == <<"e","x","t","e","r","n","a","l">>
s_true == <<"t","r","u","e">>

\* mutant: the implementation class is not reported
service_task_no_class(task) ==
    LET task_id == GetOr(task, "id", s_unknown)
        task_name == GetOr(task, "name", s_Unnamed)
        delegate_expression == Get(task, "camunda:delegateExpression")
    IN  IF Truthy(delegate_expression)
        THEN add_issue(
                 validate_expression_syntax(Fresh, delegate_expression, task_id,
                     task_name, <<"delegateExpression">>),
                 "CRITICAL", "Service Task", task_id, task_name,
                 <<"Delegate expression must be converted to Job Worker">>,
                 <<"Delegate: ", delegate_expression,
                   ". Implement as external task worker in Camunda 8.">>)
        ELSE Fresh

\* the body of the loop of validate_service_tasks
service_task(task) ==
    LET task_id == GetOr(task, "id", s_unknown)
        task_name == GetOr(task, "name", s_Unnamed)
        task_type == Get(task, "camunda:type")
        topic == Get(task, "camunda:topic")
        delegate_expression == Get(task, "camunda:delegateExpression")
        class_name == Get(task, "camunda:class")
        expression == Get(task, "camunda:expression")
        connector_id == Get(task, "camunda:connectorId")
        async_before == Get(task, "camunda:asyncBefore")
        async_after == Get(task, "camunda:asyncAfter")
        retry == Get(task, "camunda:failedJobRetryTimeCycle")
        s1 == IF task_type = s_external
              THEN add_issue(Fresh, "INFO", "Service Task", task_id, task_name,
                       <<"External task pattern already compatible">>,
                       <<"Topic: ", Fmt(topic),
                         ". Ensure workers are updated to use Camunda 8 client.">>)
              ELSE Fresh
        s2 == IF Truthy(delegate_expression)
              THEN add_issue(
                       validate_expression_syntax(s1, delegate_expression, task_id,
                           task_name, <<"delegateExpression">>),
                       "CRITICAL", "Service Task", task_id, task_name,
                       <<"Delegate expression must be converted to Job Worker">>,
                       <<"Delegate: ", delegate_expression,
                         ". Implement as external task worker in Camunda 8.">>)
              ELSE s1
        s3 == IF Truthy(class_name)
              THEN add_issue(s2, "CRITICAL", "Service Task", task_id, task_name,
                       <<"Java delegate class must be converted to Job Worker">>,
                       <<"Class: ", class_name,
                         ". Implement as external task worker in Camunda 8.">>)
              ELSE s2
        s4 == IF Truthy(expression)
              THEN validate_expression_syntax(s3, expression, task_id, task_name,
                       <<"expression attribute">>)
              ELSE s3
        s5 == IF Truthy(connector_id)
              THEN add_issue(s4, "CRITICAL", "Connector", task_id, task_name,
                       <<"Camunda Connector must be migrated">>,
                       <<"Connector ID: ", connector_id,
                         ". Convert to Camunda 8 Connector Template or Job Worker.">>)
              ELSE s4
        s6 == IF async_before = s_true \/ async_after = s_true
              THEN add_issue(s5, "INFO", "Configuration", task_id, task_name,
                       <<"Async configuration not needed in Camunda 8">>,
                       <<"All service tasks are asynchronous by default in Camunda 8.">>)
              ELSE s5
    IN  IF Truthy(retry)
        THEN add_issue(s6, "WARNING", "Configuration", task_id, task_name,
                 <<"Retry configuration uses different syntax">>,
                 <<"Current: ", retry, ". Use Zeebe retry headers in Camunda 8.">>)
        ELSE s6

\* mutant: the implementation class goes through the expression validator too
validate_service_tasks_class_validated(r) ==
    LET service_tasks == findall_desc(r, "bpmn:serviceTask")
        class_of(task) == Get(task, "camunda:class")
    IN  JoinAll([i \in 1..Len(service_tasks) |->
            Join(service_task(service_tasks[i]),
                 IF Truthy(class_of(service_tasks[i]))
                 THEN validate_expression_syntax(Fresh, class_of(service_tasks[i]),
                          GetOr(service_tasks[i], "id", s_unknown),
                          GetOr(service_tasks[i], "name", s_Unnamed), <<"class">>)
                 ELSE Fresh)])

validate_service_tasks(r) ==
    LET service_tasks == findall_desc(r, "bpmn:serviceTask")
    IN  JoinAll([i \in 1..Len(service_tasks) |-> service_task(service_tasks[i])])

s_feel == <<"f","e","e","l">>
s_javascript == <<"j","a","v","a","s","c","r","i","p","t">>
s_groovy == <<"g","r","o","o","v","y">>

\* mutant: the script format is compared as written, not in lower case
script_task_case_sensitive(task) ==
    LET task_id == GetOr(task, "id", s_unknown)
        task_name == GetOr(task, "name", s_Unnamed)
        script_format == Get(task, "camunda:scriptFormat")
        script_element == find(task, "bpmn:script")
        script_content == IF IsNode(script_element) THEN script_element.text ELSE <<>>
        s1 == IF Truthy(script_format)
                 /\ script_format \notin {s_feel, s_javascript, s_groovy}
              THEN add_issue(Fresh, "CRITICAL", "Script Task", task_id, task_name,
                       <<"Script format '", script_format, "' not supported in Camunda 8">>,
                       <<"Consider converting to FEEL or implementing as Job Worker.">>)
              ELSE IF Truthy(script_format)
                      /\ script_format \in {s_groovy, s_javascript}
              THEN add_issue(Fresh, "WARNING", "Script Task", task_id, task_name,
                       <<"Script format '", script_format, "' support is limited">>,
                       <<"Groovy and JavaScript support may differ. Test thoroughly or convert to FEEL.">>)
              ELSE Fresh
    IN  IF Truthy(script_content)
        THEN [s1 EXCEPT !.process_variables =
                 @ \cup extract_variables_from_expression(script_content)]
        ELSE s1

\* the body of the loop of validate_script_tasks
script_task(task) ==
    LET task_id == GetOr(task, "id", s_unknown)
        task_name == GetOr(task, "name", s_Unnamed)
        script_format == Get(task, "camunda:scriptFormat")
        script_element == find(task, "bpmn:script")
        script_content == IF IsNode(script_element) THEN script_element.text ELSE <<>>
        s1 == IF Truthy(script_format)
                 /\ Lower(script_format) \notin {s_feel, s_javascript, s_groovy}
              THEN add_issue(Fresh, "CRITICAL", "Script Task", task_id, task_name,
                       <<"Script format '", script_format, "' not supported in Camunda 8">>,
                       <<"Consider converting to FEEL or implementing as Job Worker.">>)
              ELSE IF Truthy(script_format)
                      /\ Lower(script_format) \in {s_groovy, s_javascript}
              THEN add_issue(Fresh, "WARNING", "Script Task", task_id, task_name,
                       <<"Script format '", script_format, "' support is limited">>,
                       <<"Groovy and JavaScript support may differ. Test thoroughly or convert to FEEL.">>)
              ELSE Fresh
    IN  IF Truthy(script_content)
        THEN [s1 EXCEPT !.process_variables =
                 @ \cup extract_variables_from_expression(script_content)]
        ELSE s1

validate_script_tasks(r) ==
    LET script_tasks == findall_desc(r, "bpmn:scriptTask")
    IN  JoinAll([i \in 1..Len(script_tasks) |-> script_task(script_tasks[i])])

s_embedded_prefix == <<"e","m","b","e","d","d","e","d",":">>
s_camunda_forms_prefix == <<"c","a","m","u","n","d","a","-","f","o","r","m","s",":">>

\* mutant: an embedded form key is reported as CRITICAL and as WARNING
user_task_form_key_both(task_id, task_name, form_key) ==
    IF Truthy(form_key)
    THEN LET w == add_issue(Fresh, "WARNING", "User Task", task_id, task_name,
                      <<"External form reference needs review">>,
                      <<"Form key: ", form_key, ". Ensure form is accessible in Camunda 8.">>)
         IN  IF StartsWith(form_key, s_embedded_prefix)
                \/ StartsWith(form_key, s_camunda_forms_prefix)
             THEN add_issue(w, "CRITICAL", "User Task", task_id, task_name,
                      <<"Embedded form must be converted to Camunda 8 Forms">>,
                      <<"Form key: ", form_key, ". Migrate to Camunda Forms JSON schema.">>)
             ELSE w
    ELSE Fresh

\* validate_user_tasks: the form key check of one task
user_task_form_key(task_id, task_name, form_key) ==
    IF Truthy(form_key)
    THEN IF StartsWith(form_key, s_embedded_prefix)
            \/ StartsWith(form_key, s_camunda_forms_prefix)
         THEN add_issue(Fresh, "CRITICAL", "User Task", task_id, task_name,
                  <<"Embedded form must be converted to Camunda 8 Forms">>,
                  <<"Form key: ", form_key, ". Migrate to Camunda Forms JSON schema.">>)
         ELSE add_issue(Fresh, "WARNING", "User Task", task_id, task_name,
                  <<"External form reference needs review">>,
                  <<"Form key: ", form_key, ". Ensure form is accessible in Camunda 8.">>)
    ELSE Fresh

\* the body of the loop of validate_user_tasks
user_task(task) ==
    LET task_id == GetOr(task, "id", s_unknown)
        task_name == GetOr(task, "name", s_Unnamed)
        form_key == Get(task, "camunda:formKey")
        form_ref == Get(task, "camunda:formRef")
        ext_elements == find(task, "bpmn:extensionElements")
        form_data == IF IsNode(ext_elements)
                     THEN find(ext_elements, "camunda:formData") ELSE NoNode
        form_fields == IF IsNode(form_data)
                       THEN findall(form_data, "camunda:formField") ELSE <<>>
        assignee == Get(task, "camunda:assignee")
        candidate_users == Get(task, "camunda:candidateUsers")
        candidate_groups == Get(task, "camunda:candidateGroups")
        s1 == user_task_form_key(task_id, task_name, form_key)
        s2 == IF Truthy(form_ref)
              THEN add_issue(s1, "WARNING", "User Task", task_id, task_name,
                       <<"Form reference needs verification">>,
                       <<"Form ref: ", form_ref>>)
              ELSE s1
        s3 == IF form_fields # <<>>
              THEN add_issue(s2, "CRITICAL", "User Task", task_id, task_name,
                       <<"Embedded form with ", Len(form_fields), " fields must be migrated">>,
                       <<"Convert form fields to Camunda 8 Forms JSON schema.">>)
              ELSE s2
        s4 == IF Truthy(assignee)
              THEN validate_expression_syntax(s3, assignee, task_id, task_name,
                       <<"assignee">>)
              ELSE s3
        s5 == IF Truthy(candidate_users)
              THEN validate_expression_syntax(s4, candidate_users, task_id, task_name,
                       <<"candidateUsers">>)
              ELSE s4
    IN  IF Truthy(candidate_groups)
        THEN validate_expression_syntax(s5, candidate_groups, task_id, task_name,
                 <<"candidateGroups">>)
        ELSE s5

validate_user_tasks(r) ==
    LET user_tasks == findall_desc(r, "bpmn:userTask")
    IN  JoinAll([i \in 1..Len(user_tasks) |-> user_task(user_tasks[i])])

gateway_types ==
    <<"bpmn:exclusiveGateway", "bpmn:parallelGateway", "bpmn:inclusiveGateway",
      "bpmn:eventBasedGateway", "bpmn:complexGateway">>

\* validate_gateways: one outgoing flow of a gateway
gateway_outgoing(r, outgoing, gw_id, gw_name) ==
    LET flow_id == outgoing.text
    IN  IF Truthy(flow_id)
        THEN IF XPathRaises(flow_id) THEN Raise
             ELSE LET flow == find_by_id(r, "bpmn:sequenceFlow", flow_id)
                      condition == IF IsNode(flow)
                                   THEN find(flow, "bpmn:conditionExpression")
                                   ELSE NoNode
                  IN  IF IsNode(condition) /\ Truthy(condition.text)
                      THEN validate_expression_syntax(Fresh, Strip(condition.text),
                               gw_id, gw_name, <<"gateway condition on flow ", flow_id>>)
                      ELSE Fresh
        ELSE Fresh

\* validate_gateways: the issue of the gateway's type
gateway_specific(gw_type, gw_id, gw_name) ==
    LET s1 == IF gw_type = "bpmn:complexGateway"
              THEN add_issue(Fresh, "CRITICAL", "Gateway", gw_id, gw_name,
                       <<"Complex gateway not supported in Camunda 8">>,
                       <<"Consider redesigning using exclusive or parallel gateways.">>)
              ELSE Fresh
    IN  IF gw_type = "bpmn:eventBasedGateway"
        THEN add_issue(s1, "WARNING", "Gateway", gw_id, gw_name,
                 <<"Event-based gateway behavior may differ">>,
                 <<"Review event correlation and timing in Camunda 8.">>)
        ELSE s1

\* the body of the inner loop of validate_gateways
gateway(r, gw, gw_type) ==
    LET gw_id == GetOr(gw, "id", s_unknown)
        gw_name == GetOr(gw, "name", s_Unnamed)
        outgoing_flows == findall(gw, "bpmn:outgoing")
    IN  Join(JoinAll([i \in 1..Len(outgoing_flows) |->
                         gateway_outgoing(r, outgoing_flows[i], gw_id, gw_name)]),
             gateway_specific(gw_type, gw_id, gw_name))

\* the body of the outer loop of validate_gateways
gateways_of_type(r, gw_type) ==
    LET gateways == findall_desc(r, gw_type)
    IN  JoinAll([i \in 1..Len(gateways) |-> gateway(r, gateways[i], gw_type)])

validate_gateways(r) ==
    JoinAll([t \in 1..Len(gateway_types) |-> gateways_of_type(r, gateway_types[t])])

s_P == <<"P">>
s_eq == <<"=">>

\* mutant: the timer value is tested without being trimmed
timer_value_raw(timer_def, time_tag, time_type, event_id, event_name) ==
    LET time_element == find(timer_def, time_tag)
    IN  IF IsNode(time_element) /\ Truthy(time_element.text)
        THEN LET expression == time_element.text
                 s1 == validate_expression_syntax(Fresh, Strip(expression), event_id,
                           event_name, <<"timer ", time_type>>)
             IN  IF ~StartsWith(expression, s_P) /\ ~StartsWith(expression, s_eq)
                 THEN add_issue(s1, "WARNING", "Timer", event_id, event_name,
                          <<"Timer ", time_type, " should use ISO 8601 format">>,
                          <<"Expression: ", Strip(expression),
                            ". Ensure compatibility with Camunda 8.">>)
                 ELSE s1
        ELSE Fresh

\* validate_timer_event: one of timeDate, timeDuration, timeCycle
timer_value(timer_def, time_tag, time_type, event_id, event_name) ==
    LET time_element == find(timer_def, time_tag)
    IN  IF IsNode(time_element) /\ Truthy(time_element.text)
        THEN LET expression == Strip(time_element.text)
                 s1 == validate_expression_syntax(Fresh, expression, event_id,
                           event_name, <<"timer ", time_type>>)
             IN  IF ~StartsWith(expression, s_P) /\ ~StartsWith(expression, s_eq)
                 THEN add_issue(s1, "WARNING", "Timer", event_id, event_name,
                          <<"Timer ", time_type, " should use ISO 8601 format">>,
                          <<"Expression: ", expression,
                            ". Ensure compatibility with Camunda 8.">>)
                 ELSE s1
        ELSE Fresh

validate_timer_event(timer_def, event_id, event_name) ==
    JoinAll(<<timer_value(timer_def, "bpmn:timeDate", "timeDate", event_id, event_name),
              timer_value(timer_def, "bpmn:timeDuration", "timeDuration", event_id, event_name),
              timer_value(timer_def, "bpmn:timeCycle", "timeCycle", event_id, event_name)>>)

validate_message_event(r, message_def, event_id, event_name) ==
    LET message_ref == Get(message_def, "messageRef")
    IN  IF Truthy(message_ref)
        THEN IF XPathRaises(message_ref) THEN Raise
             ELSE LET message == find_by_id(r, "bpmn:message", message_ref)
                      ext_elements == IF IsNode(message)
                                      THEN find(message, "bpmn:extensionElements")
                                      ELSE NoNode
                  IN  IF IsNode(ext_elements)
                      THEN add_issue(Fresh, "WARNING", "Message Event", event_id, event_name,
                               <<"Message correlation may need adjustment">>,
                               <<"Message: ", Fmt(Get(message, "name")),
                                 ". Review correlation keys for Camunda 8.">>)
                      ELSE Fresh
        ELSE Fresh

validate_signal_event(signal_def, event_id, event_name) ==
    LET signal_ref == Get(signal_def, "signalRef")
    IN  IF Truthy(signal_ref)
        THEN add_issue(Fresh, "WARNING", "Signal Event", event_id, event_name,
                 <<"Signal event behavior may differ in Camunda 8">>,
                 <<"Signal reference: ", signal_ref,
                   ". Verify signal scope and propagation.">>)
        ELSE Fresh

validate_error_event(r, error_def, event_id, event_name) ==
    LET error_ref == Get(error_def, "errorRef")
    IN  IF Truthy(error_ref)
        THEN IF XPathRaises(error_ref) THEN Raise
             ELSE LET error == find_by_id(r, "bpmn:error", error_ref)
                  IN  IF IsNode(error)
                      THEN add_issue(Fresh, "INFO", "Error Event", event_id, event_name,
                               <<"Error handling is compatible but verify error codes">>,
                               <<"Error: ", Fmt(Get(error, "name")),
                                 ", Code: ", Fmt(Get(error, "errorCode"))>>)
                      ELSE Fresh
        ELSE Fresh

event_types ==
    <<"bpmn:startEvent", "bpmn:endEvent", "bpmn:intermediateCatchEvent",
      "bpmn:intermediateThrowEvent", "bpmn:boundaryEvent">>

\* the body of the inner loop of validate_events
event(r, ev) ==
    LET event_id == GetOr(ev, "id", s_unknown)
        event_name == GetOr(ev, "name", s_Unnamed)
        timer_def == find(ev, "bpmn:timerEventDefinition")
        message_def == find(ev, "bpmn:messageEventDefinition")
        signal_def == find(ev, "bpmn:signalEventDefinition")
        error_def == find(ev, "bpmn:errorEventDefinition")
        escalation_def == find(ev, "bpmn:escalationEventDefinition")
    IN  JoinAll(<<
            IF IsNode(timer_def)
            THEN validate_timer_event(timer_def, event_id, event_name) ELSE Fresh,
            IF IsNode(message_def)
            THEN validate_message_event(r, message_def, event_id, event_name) ELSE Fresh,
            IF IsNode(signal_def)
            THEN validate_signal_event(signal_def, event_id, event_name) ELSE Fresh,
            IF IsNode(error_def)
            THEN validate_error_event(r, error_def, event_id, event_name) ELSE Fresh,
            IF IsNode(escalation_def)
            THEN add_issue(Fresh, "WARNING", "Event", event_id, event_name,
                     <<"Escalation event behavior may differ in Camunda 8">>,
                     <<"Review escalation handling and consider alternatives.">>)
            ELSE Fresh>>)

\* the body of the outer loop of validate_events
events_of_type(r, event_type) ==
    LET events == findall_desc(r, event_type)
    IN  JoinAll([i \in 1..Len(events) |-> event(r, events[i])])

validate_events(r) ==
    JoinAll([t \in 1..Len(event_types) |-> events_of_type(r, event_types[t])])

\* mutant: the class of a listener goes through the expression validator too
validate_listener_class_validated(listener, element_id, element_name, listener_type) ==
    LET ev == Get(listener, "event")
        delegate_expression == Get(listener, "delegateExpression")
        class_name == Get(listener, "class")
        expression == Get(listener, "expression")
    IN  IF Truthy(delegate_expression) \/ Truthy(class_name) \/ Truthy(expression)
        THEN LET s1 == add_issue(Fresh, "CRITICAL", listener_type, element_id, element_name,
                           <<listener_type, " not supported in Camunda 8">>,
                           <<"Event: ", Fmt(ev),
                             ". Convert listener logic to Job Worker or process redesign.">>)
                 s2 == IF Truthy(delegate_expression)
                       THEN validate_expression_syntax(s1, delegate_expression,
                                element_id, element_name, <<listener_type>>)
                       ELSE s1
                 s3 == IF Truthy(class_name)
                       THEN validate_expression_syntax(s2, class_name,
                                element_id, element_name, <<listener_type>>)
                       ELSE s2
             IN  IF Truthy(expression)
                 THEN validate_expression_syntax(s3, expression, element_id,
                          element_name, <<listener_type>>)
                 ELSE s3
        ELSE Fresh

validate_listener(listener, element_id, element_name, listener_type) ==
    LET ev == Get(listener, "event")
        delegate_expression == Get(listener, "delegateExpression")
        class_name == Get(listener, "class")
        expression == Get(listener, "expression")
    IN  IF Truthy(delegate_expression) \/ Truthy(class_name) \/ Truthy(expression)
        THEN LET s1 == add_issue(Fresh, "CRITICAL", listener_type, element_id, element_name,
                           <<listener_type, " not supported in Camunda 8">>,
                           <<"Event: ", Fmt(ev),
                             ". Convert listener logic to Job Worker or process redesign.">>)
                 s2 == IF Truthy(delegate_expression)
                       THEN validate_expression_syntax(s1, delegate_expression,
                                element_id, element_name, <<listener_type>>)
                       ELSE s1
             IN  IF Truthy(expression)
                 THEN validate_expression_syntax(s2, expression, element_id,
                          element_name, <<listener_type>>)
                 ELSE s2
        ELSE Fresh

\* the body of the loop of validate_listeners
listeners_of(element) ==
    LET element_id == GetOr(element, "id", s_unknown)
        element_name == GetOr(element, "name", s_Unnamed)
        ext_elements == find(element, "bpmn:extensionElements")
        task_listeners == IF IsNode(ext_elements)
                          THEN findall(ext_elements, "camunda:taskListener") ELSE <<>>
        execution_listeners == IF IsNode(ext_elements)
                               THEN findall(ext_elements, "camunda:executionListener")
                               ELSE <<>>
    IN  Join(JoinAll([i \in 1..Len(task_listeners) |->
                         validate_listener(task_listeners[i], element_id, element_name,
                             "Task Listener")]),
             JoinAll([i \in 1..Len(execution_listeners) |->
                         validate_listener(execution_listeners[i], element_id,
                             element_name, "Execution Listener")]))

validate_listeners(r) ==
    LET all_elements == findall_any(r)
    IN  JoinAll([i \in 1..Len(all_elements) |-> listeners_of(all_elements[i])])

\* the body of the loop of validate_call_activities
call_activity(activity) ==
    LET activity_id == GetOr(activity, "id", s_unknown)
        activity_name == GetOr(activity, "name", s_Unnamed)
        called_element == Get(activity, "calledElement")
        ext_elements == find(activity, "bpmn:extensionElements")
        in_mappings == IF IsNode(ext_elements)
                       THEN findall(ext_elements, "camunda:in") ELSE <<>>
        out_mappings == IF IsNode(ext_elements)
                        THEN findall(ext_elements, "camunda:out") ELSE <<>>
        s1 == IF Truthy(called_element)
              THEN add_issue(
                       validate_expression_syntax(Fresh, called_element, activity_id,
                           activity_name, <<"calledElement">>),
                       "WARNING", "Call Activity", activity_id, activity_name,
                       <<"Call activity requires verification">>,
                       <<"Called element: ", called_element,
                         ". Ensure called process exists in Camunda 8.">>)
              ELSE Fresh
    IN  IF in_mappings # <<>> \/ out_mappings # <<>>
        THEN add_issue(s1, "WARNING", "Call Activity", activity_id, activity_name,
                 <<"Variable mapping syntax differs in Camunda 8">>,
                 <<"Found ", Len(in_mappings), " input and ", Len(out_mappings),
                   " output mappings.">>)
        ELSE s1

validate_call_activities(r) ==
    LET call_activities == findall_desc(r, "bpmn:callActivity")
    IN  JoinAll([i \in 1..Len(call_activities) |-> call_activity(call_activities[i])])

\* the body of the loop of validate_business_rule_tasks
business_rule_task(task) ==
    LET task_id == GetOr(task, "id", s_unknown)
        task_name == GetOr(task, "name", s_Unnamed)
        decision_ref == Get(task, "camunda:decisionRef")
    IN  IF Truthy(decision_ref)
        THEN add_issue(
                 validate_expression_syntax(Fresh, decision_ref, task_id, task_name,
                     <<"decisionRef">>),
                 "WARNING", "Business Rule Task", task_id, task_name,
                 <<"DMN decision reference needs verification">>,
                 <<"Decision: ", decision_ref,
                   ". Ensure DMN is deployed and compatible with Camunda 8.">>)
        ELSE Fresh

validate_business_rule_tasks(r) ==
    LET business_rule_tasks == findall_desc(r, "bpmn:businessRuleTask")
    IN  JoinAll([i \in 1..Len(business_rule_tasks) |->
                    business_rule_task(business_rule_tasks[i])])

\* the multiInstanceLoopCharacteristics nodes below the nodes ks of parent p,
\* in document order, each with its parent: find_parent compares nodes by
\* identity, so it returns the node the element is a child of
RECURSIVE multi_instances_with_parent(_, _)
multi_instances_with_parent(p, ks) ==
    IF ks = <<>> THEN <<>>
    ELSE (IF Head(ks).tag = "bpmn:multiInstanceLoopCharacteristics"
          THEN <<[parent |-> p, mi |-> Head(ks)]>> ELSE <<>>)
         \o multi_instances_with_parent(Head(ks), Head(ks).kids)
         \o multi_instances_with_parent(p, Tail(ks))

\* the body of the loop of validate_multi_instance
multi_instance(parent, mi) ==
    LET parent_id == GetOr(parent, "id", s_unknown)
        parent_name == GetOr(parent, "name", s_Unnamed)
        collection == Get(mi, "camunda:collection")
        completion_condition == find(mi, "bpmn:completionCondition")
        s1 == IF Truthy(collection)
              THEN validate_expression_syntax(Fresh, collection, parent_id,
                       parent_name, <<"multi-instance collection">>)
              ELSE Fresh
    IN  IF IsNode(completion_condition) /\ Truthy(completion_condition.text)
        THEN validate_expression_syntax(s1, Strip(completion_condition.text),
                 parent_id, parent_name, <<"multi-instance completion condition">>)
        ELSE s1

validate_multi_instance(r) ==
    LET multi_instances == multi_instances_with_parent(r, r.kids)
    IN  JoinAll([i \in 1..Len(multi_instances) |->
                    multi_instance(multi_instances[i].parent, multi_instances[i].mi)])

\* the body of the loop of validate_subprocesses
subprocess(sp) ==
    LET subprocess_id == GetOr(sp, "id", s_unknown)
        subprocess_name == GetOr(sp, "name", s_Unnamed)
        triggered_by_event == Get(sp, "triggeredByEvent")
    IN  IF triggered_by_event = s_true
        THEN add_issue(Fresh, "WARNING", "Subprocess", subprocess_id, subprocess_name,
                 <<"Event subprocess behavior may differ in Camunda 8">>,
                 <<"Review event subprocess triggering and variable scope.">>)
        ELSE Fresh

validate_subprocesses(r) ==
    LET subprocesses == findall_desc(r, "bpmn:subProcess")
    IN  JoinAll([i \in 1..Len(subprocesses) |-> subprocess(subprocesses[i])])

\* validate_input_output_mappings: one input or output parameter
io_parameter(param, element_id, element_name) ==
    LET param_name == Get(param, "name")
        param_text == param.text
        script == find(param, "camunda:script")
        s1 == IF Truthy(param_text)
              THEN validate_expression_syntax(Fresh, Strip(param_text), element_id,
                       element_name, <<"I/O parameter ", Fmt(param_name)>>)
              ELSE Fresh
    IN  IF IsNode(script)
        THEN add_issue(s1, "CRITICAL", "I/O Mapping", element_id, element_name,
                 <<"Script in I/O parameter not supported">>,
                 <<"Parameter: ", Fmt(param_name),
                   ". Convert to FEEL expression or Job Worker.">>)
        ELSE s1

\* the body of the loop of validate_input_output_mappings
io_mappings_of(element) ==
    LET element_id == GetOr(element, "id", s_unknown)
        element_name == GetOr(element, "name", s_Unnamed)
        ext_elements == find(element, "bpmn:extensionElements")
        input_output == IF IsNode(ext_elements)
                        THEN find(ext_elements, "camunda:inputOutput") ELSE NoNode
        params == IF IsNode(input_output)
                  THEN findall(input_output, "camunda:inputParameter")
                       \o findall(input_output, "camunda:outputParameter")
                  ELSE <<>>
    IN  JoinAll([i \in 1..Len(params) |-> io_parameter(params[i], element_id, element_name)])

validate_input_output_mappings(r) ==
    LET all_elements == findall_any(r)
    IN  JoinAll([i \in 1..Len(all_elements) |-> io_mappings_of(all_elements[i])])

\* the body of the loop of validate_configurations
configuration(element) ==
    LET element_id == GetOr(element, "id", s_unknown)
        element_name == GetOr(element, "name", s_Unnamed)
        history_ttl == Get(element, "camunda:historyTimeToLive")
        job_priority == Get(element, "camunda:jobPriority")
        s1 == IF Truthy(history_ttl)
              THEN add_issue(Fresh, "INFO", "Configuration", element_id, element_name,
                       <<"History TTL configuration not applicable in Camunda 8">>,
                       <<"TTL: ", history_ttl,
                         ". Camunda 8 has different data retention mechanisms.">>)
              ELSE Fresh
    IN  IF Truthy(job_priority)
        THEN add_issue(s1, "INFO", "Configuration", element_id, element_name,
                 <<"Job priority not supported in Camunda 8">>,
                 <<"Priority: ", job_priority>>)
        ELSE s1

validate_configurations(r) ==
    LET all_elements == findall_any(r)
    IN  JoinAll([i \in 1..Len(all_elements) |-> configuration(all_elements[i])])

----------------------------------------------------------------------------
(* Statistics and the report.                                              *)

element_types ==
    <<"bpmn:serviceTask", "bpmn:userTask", "bpmn:scriptTask", "bpmn:businessRuleTask",
      "bpmn:callActivity", "bpmn:startEvent", "bpmn:endEvent",
      "bpmn:intermediateCatchEvent", "bpmn:intermediateThrowEvent",
      "bpmn:boundaryEvent", "bpmn:exclusiveGateway", "bpmn:parallelGateway",
      "bpmn:inclusiveGateway", "bpmn:eventBasedGateway", "bpmn:subProcess">>

\* total_elements after the first n element types were counted
RECURSIVE total_elements_upto(_, _)
total_elements_upto(r, n) ==
    IF n = 0 THEN 0
    ELSE total_elements_upto(r, n - 1) + Len(findall_desc(r, element_types[n]))

\* len([i for i in issue_list if i.severity == severity])
count_severity(issue_list, severity) ==
    Len(SelectSeq(issue_list, LAMBDA i : i.severity = severity))

\* mutant: the WARNING counter misses the issues of the BPMN category
issue_counts_skip(issue_list) ==
    [CRITICAL |-> count_severity(issue_list, "CRITICAL"),
     WARNING |-> Len(SelectSeq(issue_list,
                     LAMBDA i : i.severity = "WARNING" /\ i.category # "BPMN")),
     INFO |-> count_severity(issue_list, "INFO")]

\* calculate_statistics: the issue counts by severity
issue_counts(issue_list) ==
    [CRITICAL |-> count_severity(issue_list, "CRITICAL"),
     WARNING |-> count_severity(issue_list, "WARNING"),
     INFO |-> count_severity(issue_list, "INFO")]

\* calculate_statistics: the issue counts by category
category_counts(issue_list) ==
    [c \in {issue_list[i].category : i \in 1..Len(issue_list)} |->
        Len(SelectSeq(issue_list, LAMBDA i : i.category = c))]

calculate_statistics(r, issue_list, variables) ==
    [total_elements |-> total_elements_upto(r, Len(element_types)),
     element_counts |-> [t \in {element_types[n] : n \in 1..Len(element_types)} |->
                            Len(findall_desc(r, t))],
     total_issues |-> Len(issue_list),
     issue_counts_by_severity |-> issue_counts(issue_list),
     issue_counts_by_category |-> category_counts(issue_list),
     total_variables_detected |-> Cardinality(variables)]

\* the characters the model uses in the order of their code points, for the
\* order of sorted()
CodePoints ==
    <<"\t", "\n", "\f", "\r", " ", "!", "\"", "#", "$", "%", "&", "'", "(", ")", "*", "+",
      ",", "-", ".", "/", "0", "1", "2", "3", "4", "5", "6", "7", "8", "9", ":", ";",
      "<", "=", ">", "?", "@",
      "A","B","C","D","E","F","G","H","I","J","K","L","M",
      "N","O","P","Q","R","S","T","U","V","W","X","Y","Z",
      "[", "\\", "]", "^", "_",
      "a","b","c","d","e","f","g","h","i","j","k","l","m",
      "n","o","p","q","r","s","t","u","v","w","x","y","z",
      "{", "|", "}", "~">>

Ord(c) == CHOOSE k \in 1..Len(CodePoints) : CodePoints[k] = c

\* a < b for strings
RECURSIVE StrLess(_, _)
StrLess(a, b) ==
    IF b = <<>> THEN FALSE
    ELSE IF a = <<>> THEN TRUE
    ELSE IF Head(a) = Head(b) THEN StrLess(Tail(a), Tail(b))
    ELSE Ord(Head(a)) < Ord(Head(b))

\* mutant: the names are listed from the greatest to the least
RECURSIVE sorted_descending(_)
sorted_descending(S) ==
    IF S = {} THEN <<>>
    ELSE LET greatest == CHOOSE x \in S : \A y \in S \ {x} : StrLess(y, x)
         IN  <<greatest>> \o sorted_descending(S \ {greatest})

\* sorted(list(S))
RECURSIVE sorted(_)
sorted(S) ==
    IF S = {} THEN <<>>
    ELSE LET least == CHOOSE x \in S : \A y \in S \ {x} : StrLess(x, y)
         IN  <<least>> \o sorted(S \ {least})

\* the dictionary analyze() returns (file and timestamp, which no rule reads,
\* are left out)
report(stats, issue_list, variables) ==
    [statistics |-> stats, issues |-> issue_list,
     process_variables |-> sorted(variables)]

----------------------------------------------------------------------------
(* SpecExpr: the two expression operations applied to one input string.    *)

\* the characters of the exhaustively enumerated strings
Chars == {"$", "#", "{", "}", "a", "."}

s_myDelegate == <<"m","y","D","e","l","e","g","a","t","e">>
s_order == <<"o","r","d","e","r">>
x_myDelegate == <<"$","{","m","y","D","e","l","e","g","a","t","e","}">>
x_order_total == <<"$","{","o","r","d","e","r",".","t","o","t","a","l","}">>
x_myVar_open == <<"$","{","m","y","V","a","r">>
x_a_sp_b == <<"$","{","a"," ","b","}">>
x_a_idx == <<"$","{","a","[","0","]","}">>
x_f_call == <<"$","{","f","(","x",")","}">>
x_sp_a == <<"$","{"," ","a","}">>
x_a_nl == <<"$","{","a","\n","}">>
x_closed_then_open == <<"$","{","a","}","$","{","b">>
x_two == <<"#","{","a","}"," ","$","{","b",".","c","}">>
x_nested == <<"$","{","a","$","{","b","}">>
x_plain == <<"p","l","a","i","n">>

SampleExprs ==
    {None, x_myDelegate, x_order_total, x_myVar_open, x_a_sp_b, x_a_idx, x_f_call,
     x_sp_a, x_a_nl, x_closed_then_open, x_two, x_nested, x_plain}

ExprInputs ==
    SampleExprs \cup UNION {[1..n -> Chars] : n \in 0..MaxLen}

s_e1 == <<"e","1">>
s_z == <<"z">>
ctx_delegateExpression == <<"delegateExpression">>

\* what the analyzer may hold before the calls: nothing, or an earlier finding
PriorStates ==
    {[issues |-> <<>>, process_variables |-> {}, group |-> "none"],
     [issues |-> <<MigrationIssue("INFO", "Configuration", s_e1, s_Unnamed,
                       <<"Job priority not supported in Camunda 8">>, <<"Priority: ", s_z>>)>>,
      process_variables |-> {s_z}, group |-> "none"]}

InitExpr ==
    /\ expr \in ExprInputs
    /\ prior \in PriorStates
    /\ issues = prior.issues
    /\ process_variables = prior.process_variables
    /\ ret = {}
    /\ pc = "expr_ready"
    /\ doc = NoDoc
    /\ root = NoNode
    /\ statistics = EmptyDict
    /\ result = EmptyDict
    /\ reports = <<>>
    /\ run = 0
    /\ EnvIdle

\* variables = self.extract_variables_from_expression(expression)
ExtractCall ==
    /\ pc = "expr_ready"
    /\ ret' = extract_variables_from_expression(expr)
    /\ pc' = "expr_extracted"
    /\ UNCHANGED <<doc, root, issues, statistics, process_variables, result,
                   reports, run, expr, prior, env>>

\* self.validate_expression_syntax(expression, element_id, element_name, context)
ValidateCall ==
    /\ pc = "expr_extracted"
    /\ LET self == validate_expression_syntax(
                       [issues |-> issues, process_variables |-> process_variables,
                        raised |-> FALSE],
                       expr, s_e1, s_Unnamed, ctx_delegateExpression)
       IN  /\ issues' = self.issues
           /\ process_variables' = self.process_variables
    /\ pc' = "expr_validated"
    /\ UNCHANGED <<doc, root, statistics, result, reports, run, expr, prior, ret, env>>

NextExpr == ExtractCall \/ ValidateCall

SpecExpr == InitExpr /\ [][NextExpr]_vars

----------------------------------------------------------------------------
(* The documents analysed: a definitions root holding one process with up  *)
(* to MaxElems elements drawn from one family of the catalogue.            *)

v_schema_good == <<"h","t","t","p",":","/","/","w","w","w",".","o","m","g",".","o","r","g","/","s","p","e","c","/","B","P","M","N","/","2","0","1","0","0","5","2","4","/","M","O","D","E","L"," ","B","P","M","N","2","0",".","x","s","d">>
v_schema_other == <<"h","t","t","p",":","/","/","e","x","a","m","p","l","e",".","c","o","m","/","s","c","h","e","m","a">>
id_p == <<"p">>
id_s1 == <<"s","1">>
id_s2 == <<"s","2">>
id_c1 == <<"c","1">>
id_g1 == <<"g","1">>
id_g2 == <<"g","2">>
id_u1 == <<"u","1">>
id_f1 == <<"f","1">>
id_f2 == <<"f","2">>
id_f9 == <<"f","9">>
id_quote == <<"f","'">>
id_ev1 == <<"e","v","1">>
id_m1 == <<"m","1">>
id_er1 == <<"e","r","1">>
id_x1 == <<"x","1">>
v_class == <<"c","o","m",".","a","c","m","e",".","M","y","D","e","l","e","g","a","t","e">>
v_class_expr == <<"$","{","c","l","s","}">>
v_topic == <<"b","i","l","l","i","n","g">>
v_connector == <<"h","t","t","p","-","c","o","n","n","e","c","t","o","r">>
v_retry == <<"R","3","/","P","T","5","M">>
v_python == <<"p","y","t","h","o","n">>
v_Groovy == <<"G","r","o","o","v","y">>
v_FEEL == <<"F","E","E","L">>
v_embedded == <<"e","m","b","e","d","d","e","d",":","a","p","p",":","t","a","s","k","f","o","r","m">>
v_http == <<"h","t","t","p",":","/","/","e","x","a","m","p","l","e",".","c","o","m","/","f","o","r","m">>
v_camunda_forms == <<"c","a","m","u","n","d","a","-","f","o","r","m","s",":","a","p","p",":","f",".","f","o","r","m">>
v_not_prefix == <<"a","p","p",":","e","m","b","e","d","d","e","d",":","f","o","r","m">>
v_form_ref == <<"i","n","v","o","i","c","e","F","o","r","m">>
v_user == <<"$","{","u","s","e","r","}">>
v_cond_x == <<"$","{","x"," ",">"," ","1","}">>
v_cond_open == <<" ","$","{","y"," ">>
v_cond_feel == <<"=","z">>
v_PT10M == <<"P","T","1","0","M">>
v_10M == <<"1","0","M">>
v_timer_expr == <<"$","{","d","u","e","D","a","t","e","}">>
v_PT10M_padded == <<" ","P","T","1","0","M"," ">>
v_eq_cycle == <<"=","c","y","c","l","e","(","d",")">>
v_blank == <<" ">>
v_start == <<"s","t","a","r","t">>
v_listener_expr == <<"#","{","a","u","d","i","t",".","l","o","g","(","e",")","}">>
v_called == <<"$","{","t","a","r","g","e","t","}">>
v_decision == <<"r","i","s","k","D","e","c","i","s","i","o","n">>
v_items == <<"$","{","i","t","e","m","s","}">>
v_done == <<"$","{","n","r","D","o","n","e"," ",">","="," ","2","}">>
v_param == <<"$","{","p","a","r","a","m","}">>
v_in == <<"i","n">>
v_ttl == <<"3","0">>
v_msg_name == <<"O","r","d","e","r">>
v_err_code == <<"E","4","2">>
v_body_x == <<"p","r","i","n","t","l","n","(","$","{","x","}",")"," ">>
v_body_yz == <<"a"," ","="," ","#","{","y",".","z","}">>

\* attribute maps
A1(k1, v1) == k1 :> v1
A2(k1, v1, k2, v2) == (k1 :> v1) @@ (k2 :> v2)
A3(k1, v1, k2, v2, k3, v3) == (k1 :> v1) @@ (k2 :> v2) @@ (k3 :> v3)

\* a node with text and no attributes or children
TextNode(tag, text) == Node(tag, EmptyDict, text, <<>>)

Outgoing(flow_id) == TextNode("bpmn:outgoing", flow_id)

Extension(kids) == Node("bpmn:extensionElements", EmptyDict, <<>>, kids)

ServiceTasks ==
    {Node("bpmn:serviceTask", A2("id", id_s1, "camunda:class", v_class), <<>>, <<>>),
     Node("bpmn:serviceTask", A2("id", id_s2, "camunda:delegateExpression", x_myDelegate),
          <<>>, <<>>),
     Node("bpmn:serviceTask", A2("id", id_s1, "camunda:expression", x_myVar_open),
          <<>>, <<>>),
     Node("bpmn:serviceTask", A3("id", id_s2, "camunda:type", s_external,
                                 "camunda:topic", v_topic), <<>>, <<>>),
     Node("bpmn:serviceTask", A1("camunda:type", s_external), <<>>, <<>>),
     Node("bpmn:serviceTask", A2("id", id_s1, "camunda:class", v_class_expr), <<>>, <<>>),
     Node("bpmn:serviceTask", A3("camunda:connectorId", v_connector,
                                 "camunda:asyncBefore", s_true,
                                 "camunda:failedJobRetryTimeCycle", v_retry), <<>>, <<>>)}

ScriptTasks ==
    {Node("bpmn:scriptTask", A2("id", id_c1, "camunda:scriptFormat", v_python), <<>>, <<>>),
     Node("bpmn:scriptTask", A2("id", id_c1, "camunda:scriptFormat", s_groovy), <<>>,
          <<TextNode("bpmn:script", v_body_x)>>),
     Node("bpmn:scriptTask", A1("camunda:scriptFormat", v_Groovy), <<>>, <<>>),
     Node("bpmn:scriptTask", A1("camunda:scriptFormat", s_javascript), <<>>, <<>>),
     Node("bpmn:scriptTask", A1("camunda:scriptFormat", v_FEEL), <<>>,
          <<TextNode("bpmn:script", v_body_yz)>>),
     Node("bpmn:scriptTask", A1("id", id_c1), <<>>,
          <<TextNode("bpmn:script", x_myVar_open)>>),
     Node("bpmn:scriptTask", A2("id", id_x1, "scriptFormat", v_python), <<>>, <<>>),
     Node("bpmn:scriptTask", A1("camunda:scriptFormat", <<>>), <<>>, <<>>)}

Flows ==
    {Node("bpmn:sequenceFlow", A1("id", id_f1), <<>>,
          <<TextNode("bpmn:conditionExpression", v_cond_x)>>),
     Node("bpmn:sequenceFlow", A1("id", id_f1), <<>>, <<>>),
     Node("bpmn:sequenceFlow", A1("id", id_f2), <<>>,
          <<TextNode("bpmn:conditionExpression", v_cond_open)>>)}

Gateways ==
    {Node("bpmn:complexGateway", A1("id", id_g1), <<>>, <<>>),
     Node("bpmn:complexGateway", A1("id", id_g2), <<>>, <<Outgoing(id_f1), Outgoing(id_f2)>>),
     Node("bpmn:complexGateway", EmptyDict, <<>>, <<Outgoing(id_f9)>>),
     Node("bpmn:complexGateway", A1("id", id_g1), <<>>, <<Outgoing(id_quote)>>),
     Node("bpmn:eventBasedGateway", A1("id", id_g1), <<>>, <<Outgoing(id_f1)>>),
     Node("bpmn:exclusiveGateway", A1("id", id_g2), <<>>, <<Outgoing(id_f2), Outgoing(<<>>)>>),
     Node("bpmn:parallelGateway", A1("id", id_g1), <<>>, <<>>),
     Node("bpmn:inclusiveGateway", A1("id", id_g2), <<>>, <<Outgoing(id_f1)>>)}

UserTasks ==
    {Node("bpmn:userTask", A2("id", id_u1, "camunda:formKey", v_embedded), <<>>, <<>>),
     Node("bpmn:userTask", A2("id", id_u1, "camunda:formKey", v_http), <<>>, <<>>),
     Node("bpmn:userTask", A1("camunda:formKey", v_camunda_forms), <<>>, <<>>),
     Node("bpmn:userTask", A2("id", id_x1, "camunda:formKey", v_not_prefix), <<>>, <<>>),
     Node("bpmn:userTask", A2("id", id_u1, "camunda:formKey", <<>>), <<>>, <<>>),
     Node("bpmn:userTask", A2("id", id_x1, "camunda:formRef", v_form_ref), <<>>,
          <<Extension(<<Node("camunda:formData", EmptyDict, <<>>,
                <<TextNode("camunda:formField", <<>>), TextNode("camunda:formField", <<>>)>>)>>)>>),
     Node("bpmn:userTask", A3("id", id_u1, "camunda:formKey", v_embedded,
                              "camunda:assignee", v_user), <<>>, <<>>)}

Events ==
    {Node("bpmn:startEvent", A1("id", id_ev1), <<>>,
          <<Node("bpmn:timerEventDefinition", EmptyDict, <<>>,
                <<TextNode("bpmn:timeDuration", v_PT10M)>>)>>),
     Node("bpmn:intermediateCatchEvent", A1("id", id_ev1), <<>>,
          <<Node("bpmn:timerEventDefinition", EmptyDict, <<>>,
                <<TextNode("bpmn:timeDuration", v_10M),
                  TextNode("bpmn:timeCycle", v_timer_expr)>>)>>),
     Node("bpmn:boundaryEvent", A1("id", id_x1), <<>>,
          <<Node("bpmn:timerEventDefinition", EmptyDict, <<>>,
                <<TextNode("bpmn:timeDate", v_PT10M_padded),
                  TextNode("bpmn:timeDuration", v_blank),
                  TextNode("bpmn:timeCycle", v_eq_cycle)>>)>>),
     Node("bpmn:startEvent", EmptyDict, <<>>,
          <<Node("bpmn:messageEventDefinition", A1("messageRef", id_m1), <<>>, <<>>)>>),
     Node("bpmn:boundaryEvent", A1("id", id_ev1), <<>>,
          <<Node("bpmn:errorEventDefinition", A1("errorRef", id_er1), <<>>, <<>>)>>),
     Node("bpmn:endEvent", A1("id", id_ev1), <<>>,
          <<Node("bpmn:errorEventDefinition", A1("errorRef", id_quote), <<>>, <<>>),
            Node("bpmn:escalationEventDefinition", EmptyDict, <<>>, <<>>)>>),
     Node("bpmn:intermediateThrowEvent", A1("id", id_ev1), <<>>,
          <<Node("bpmn:signalEventDefinition", A1("signalRef", id_x1), <<>>, <<>>)>>),
     Node("bpmn:message", A2("id", id_m1, "name", v_msg_name), <<>>, <<Extension(<<>>)>>),
     Node("bpmn:error", A2("id", id_er1, "errorCode", v_err_code), <<>>, <<>>)}

Listeners ==
    {Node("bpmn:userTask", A1("id", id_u1), <<>>,
          <<Extension(<<Node("camunda:taskListener",
                             A2("event", v_start, "class", v_class), <<>>, <<>>)>>)>>),
     Node("bpmn:serviceTask", A1("id", id_s1), <<>>,
          <<Extension(<<Node("camunda:executionListener",
                             A1("delegateExpression", v_listener_expr), <<>>, <<>>),
                        Node("camunda:executionListener",
                             A1("event", v_start), <<>>, <<>>)>>)>>),
     Node("bpmn:task", EmptyDict, <<>>,
          <<Extension(<<Node("camunda:executionListener",
                             A2("event", v_start, "expression", x_myVar_open), <<>>, <<>>)>>)>>),
     Node("bpmn:userTask", A1("id", id_u1), <<>>,
          <<Extension(<<Node("camunda:taskListener",
                             A2("class", v_class_expr, "expression", v_called), <<>>, <<>>),
                        Node("camunda:taskListener",
                             A1("class", v_class_expr), <<>>, <<>>)>>)>>)}

Activities ==
    {Node("bpmn:callActivity", A2("id", id_x1, "calledElement", v_called), <<>>,
          <<Extension(<<Node("camunda:in", EmptyDict, <<>>, <<>>)>>)>>),
     Node("bpmn:businessRuleTask", A2("id", id_x1, "camunda:decisionRef", v_decision),
          <<>>, <<>>),
     Node("bpmn:serviceTask", A1("id", id_s1), <<>>,
          <<Node("bpmn:multiInstanceLoopCharacteristics",
                 A1("camunda:collection", v_items), <<>>,
                 <<TextNode("bpmn:completionCondition", v_done)>>)>>),
     Node("bpmn:subProcess", A2("id", id_x1, "triggeredByEvent", s_true), <<>>,
          <<Node("bpmn:scriptTask", A2("id", id_c1, "camunda:scriptFormat", v_python),
                 <<>>, <<TextNode("bpmn:script", v_body_yz)>>)>>),
     Node("bpmn:task", A2("id", id_x1, "camunda:jobPriority", v_ttl), <<>>,
          <<Extension(<<Node("camunda:inputOutput", EmptyDict, <<>>,
                <<Node("camunda:inputParameter", A1("name", v_in), v_param, <<>>),
                  Node("camunda:outputParameter", EmptyDict, <<>>,
                       <<TextNode("camunda:script", v_body_x)>>)>>)>>)>>),
     Node("bpmn:userTask", A2("id", id_u1, "camunda:historyTimeToLive", v_ttl), <<>>, <<>>)}

\* one element of each rule group
Mixed ==
    {Node("bpmn:serviceTask", A2("id", id_s1, "camunda:class", v_class), <<>>, <<>>),
     Node("bpmn:complexGateway", A1("id", id_g1), <<>>, <<>>),
     Node("bpmn:eventBasedGateway", A1("id", id_g2), <<>>, <<Outgoing(id_f1)>>),
     Node("bpmn:sequenceFlow", A1("id", id_f1), <<>>,
          <<TextNode("bpmn:conditionExpression", v_cond_x)>>),
     Node("bpmn:scriptTask", A2("id", id_c1, "camunda:scriptFormat", s_groovy), <<>>,
          <<TextNode("bpmn:script", v_body_x)>>),
     Node("bpmn:userTask", A2("id", id_u1, "camunda:formKey", v_http), <<>>, <<>>),
     Node("bpmn:complexGateway", A1("id", id_g1), <<>>, <<Outgoing(id_quote)>>)}

Families ==
    {ServiceTasks, ScriptTasks, Flows \cup Gateways, UserTasks, Events, Listeners,
     Activities, Mixed}

SchemaLocations == {None, v_schema_good, v_schema_other}

\* the file: whether ElementTree can parse it, and the tree it holds
Document(wellformed, schema_location, elements) ==
    [wellformed |-> wellformed,
     root |-> Node("bpmn:definitions",
                   IF schema_location = None THEN EmptyDict
                   ELSE A1("xsi:schemaLocation", schema_location),
                   <<>>,
                   <<Node("bpmn:process", A1("id", id_p), <<>>, elements)>>)]

\* the lists of up to MaxElems elements of family F
ListsOver(F) == UNION {[1..n -> F] : n \in 0..MaxElems}

\* the input files: well-formed files without a schema location over every
\* family, and every kind of file (malformed ones too) over the mixed family
Docs ==
    {Document(TRUE, None, e) : e \in UNION {ListsOver(F) : F \in Families}}
    \cup {Document(w, l, e) : w \in BOOLEAN, l \in SchemaLocations, e \in ListsOver(Mixed)}

----------------------------------------------------------------------------
(* Spec: runs of analyze(), each on a fresh BPMNAnalyzer for the same file. *)

\* BPMNAnalyzer.__init__ followed by the call of analyze()
Init ==
    /\ doc \in Docs
    /\ root = NoNode
    /\ issues = <<>>
    /\ statistics = EmptyDict
    /\ process_variables = {}
    /\ pc = "analyze"
    /\ result = EmptyDict
    /\ reports = <<>>
    /\ run = 1
    /\ expr = <<>>
    /\ prior = [issues |-> <<>>, process_variables |-> {}, group |-> "none"]
    /\ ret = {}
    /\ EnvIdle

\* parse() returns True: the tree is kept and the rule groups follow
ParseOk ==
    /\ pc = "analyze"
    /\ doc.wellformed
    /\ root' = doc.root
    /\ pc' = "validate_namespaces"
    /\ UNCHANGED <<doc, issues, statistics, process_variables, result, reports,
                   run, expr, prior, ret, env>>

\* mutant: a parse failure does not stop the run
ParseFailContinues ==
    /\ pc = "analyze"
    /\ ~doc.wellformed
    /\ root' = doc.root
    /\ pc' = "validate_namespaces"
    /\ UNCHANGED <<doc, issues, statistics, process_variables, result, reports,
                   run, expr, prior, ret, env>>

\* parse() returns False: analyze() returns {}
ParseFail ==
    /\ pc = "analyze"
    /\ ~doc.wellformed
    /\ result' = EmptyDict
    /\ reports' = Append(reports, EmptyDict)
    /\ pc' = "failed"
    /\ UNCHANGED <<doc, root, issues, statistics, process_variables, run, expr,
                   prior, ret, env>>

\* mutant: a rule group with issues of its own replaces the issue list
RuleGroupReplacing(here, effect, next) ==
    /\ pc = here
    /\ issues' = IF effect.issues = <<>> THEN issues ELSE effect.issues
    /\ process_variables' = process_variables \cup effect.process_variables
    /\ pc' = IF effect.raised THEN "raised" ELSE next
    /\ prior' = [issues |-> issues, process_variables |-> process_variables,
                 group |-> here]
    /\ UNCHANGED <<doc, root, statistics, result, reports, run, expr, ret, env>>

\* one rule group of analyze(): its issues are appended, its variables added;
\* an exception leaves analyze() without a return value
RuleGroup(here, effect, next) ==
    /\ pc = here
    /\ issues' = issues \o effect.issues
    /\ process_variables' = process_variables \cup effect.process_variables
    /\ pc' = IF effect.raised THEN "raised" ELSE next
    /\ prior' = [issues |-> issues, process_variables |-> process_variables,
                 group |-> here]
    /\ UNCHANGED <<doc, root, statistics, result, reports, run, expr, ret, env>>

ValidateNamespaces ==
    RuleGroup("validate_namespaces", validate_namespaces(root), "validate_service_tasks")

ValidateServiceTasks ==
    RuleGroup("validate_service_tasks", validate_service_tasks(root), "validate_script_tasks")

ValidateScriptTasks ==
    RuleGroup("validate_script_tasks", validate_script_tasks(root), "validate_user_tasks")

ValidateUserTasks ==
    RuleGroup("validate_user_tasks", validate_user_tasks(root), "validate_gateways")

ValidateGateways ==
    RuleGroup("validate_gateways", validate_gateways(root), "validate_events")

ValidateEvents ==
    RuleGroup("validate_events", validate_events(root), "validate_listeners")

ValidateListeners ==
    RuleGroup("validate_listeners", validate_listeners(root), "validate_call_activities")

ValidateCallActivities ==
    RuleGroup("validate_call_activities", validate_call_activities(root),
              "validate_business_rule_tasks")

ValidateBusinessRuleTasks ==
    RuleGroup("validate_business_rule_tasks", validate_business_rule_tasks(root),
              "validate_multi_instance")

ValidateMultiInstance ==
    RuleGroup("validate_multi_instance", validate_multi_instance(root),
              "validate_subprocesses")

\* mutant: the statistics are also calculated right after this rule group
ValidateSubprocessesThenStatistics ==
    /\ pc = "validate_subprocesses"
    /\ \E effect \in {validate_subprocesses(root)} :
          /\ issues' = issues \o effect.issues
          /\ process_variables' = process_variables \cup effect.process_variables
          /\ pc' = IF effect.raised THEN "raised" ELSE "validate_input_output_mappings"
    /\ prior' = [issues |-> issues, process_variables |-> process_variables,
                 group |-> "validate_subprocesses"]
    /\ statistics' = calculate_statistics(root, issues', process_variables')
    /\ UNCHANGED <<doc, root, result, reports, run, expr, ret, env>>

ValidateSubprocesses ==
    RuleGroup("validate_subprocesses", validate_subprocesses(root),
              "validate_input_output_mappings")

ValidateInputOutputMappings ==
    RuleGroup("validate_input_output_mappings", validate_input_output_mappings(root),
              "validate_configurations")

ValidateConfigurations ==
    RuleGroup("validate_configurations", validate_configurations(root),
              "calculate_statistics")

CalculateStatistics ==
    /\ pc = "calculate_statistics"
    /\ statistics' = calculate_statistics(root, issues, process_variables)
    /\ pc' = "return"
    /\ UNCHANGED <<doc, root, issues, process_variables, result, reports, run,
                   expr, prior, ret, env>>

\* return {...}
Return ==
    /\ pc = "return"
    /\ result' = report(statistics, issues, process_variables)
    /\ reports' = Append(reports, result')
    /\ pc' = "done"
    /\ UNCHANGED <<doc, root, issues, statistics, process_variables, run, expr,
                   prior, ret, env>>

\* mutant: the new analyzer shares the issue list of the one before
NewAnalyzerSharedIssues ==
    /\ pc \in {"done", "failed", "raised"}
    /\ run < MaxRuns
    /\ run' = run + 1
    /\ root' = NoNode
    /\ statistics' = EmptyDict
    /\ process_variables' = {}
    /\ result' = EmptyDict
    /\ pc' = "analyze"
    /\ prior' = [issues |-> <<>>, process_variables |-> {}, group |-> "none"]
    /\ UNCHANGED <<doc, issues, reports, expr, ret, env>>

\* the same file is analysed again: BPMNAnalyzer(bpmn_file).analyze()
NewAnalyzer ==
    /\ pc \in {"done", "failed", "raised"}
    /\ run < MaxRuns
    /\ run' = run + 1
    /\ root' = NoNode
    /\ issues' = <<>>
    /\ statistics' = EmptyDict
    /\ process_variables' = {}
    /\ result' = EmptyDict
    /\ pc' = "analyze"
    /\ prior' = [issues |-> <<>>, process_variables |-> {}, group |-> "none"]
    /\ UNCHANGED <<doc, reports, expr, ret, env>>

Next ==
    \/ ParseOk
    \/ ParseFail
    \/ ValidateNamespaces
    \/ ValidateServiceTasks
    \/ ValidateScriptTasks
    \/ ValidateUserTasks
    \/ ValidateGateways
    \/ ValidateEvents
    \/ ValidateListeners
    \/ ValidateCallActivities
    \/ ValidateBusinessRuleTasks
    \/ ValidateMultiInstance
    \/ ValidateSubprocesses
    \/ ValidateInputOutputMappings
    \/ ValidateConfigurations
    \/ CalculateStatistics
    \/ Return
    \/ NewAnalyzer

Spec == Init /\ [][Next]_vars

----------------------------------------------------------------------------
(* The methods of BPMNAnalyzer as whole calls on an analyzer value         *)
(* [root, issues, statistics, process_variables].                          *)

Analyzer(r, issue_list, stats, variables) ==
    [root |-> r, issues |-> issue_list, statistics |-> stats,
     process_variables |-> variables]

\* BPMNAnalyzer(bpmn_file)
NewSelf == Analyzer(NoNode, <<>>, EmptyDict, {})

\* the analyzer the state variables hold
Self == Analyzer(root, issues, statistics, process_variables)

\* the state variables take the value of an analyzer
SetSelf(self) ==
    /\ root' = self.root
    /\ issues' = self.issues
    /\ statistics' = self.statistics
    /\ process_variables' = self.process_variables

\* the validation calls of analyze(), in its order
rule_groups ==
    <<"validate_namespaces", "validate_service_tasks", "validate_script_tasks",
      "validate_user_tasks", "validate_gateways", "validate_events",
      "validate_listeners", "validate_call_activities",
      "validate_business_rule_tasks", "validate_multi_instance",
      "validate_subprocesses", "validate_input_output_mappings",
      "validate_configurations">>

\* what the named validation method appends on the tree r
rule_group(r, name) ==
    CASE name = "validate_namespaces" -> validate_namespaces(r)
      [] name = "validate_service_tasks" -> validate_service_tasks(r)
      [] name = "validate_script_tasks" -> validate_script_tasks(r)
      [] name = "validate_user_tasks" -> validate_user_tasks(r)
      [] name = "validate_gateways" -> validate_gateways(r)
      [] name = "validate_events" -> validate_events(r)
      [] name = "validate_listeners" -> validate_listeners(r)
      [] name = "validate_call_activities" -> validate_call_activities(r)
      [] name = "validate_business_rule_tasks" -> validate_business_rule_tasks(r)
      [] name = "validate_multi_instance" -> validate_multi_instance(r)
      [] name = "validate_subprocesses" -> validate_subprocesses(r)
      [] name = "validate_input_output_mappings" -> validate_input_output_mappings(r)
      [] name = "validate_configurations" -> validate_configurations(r)

\* the named methods called one after the other; an exception ends the calls
RECURSIVE run_groups(_, _, _)
run_groups(r, names, done) ==
    IF names = <<>> \/ done.raised THEN done
    ELSE CHOOSE all \in {run_groups(r, Tail(names), next) :
                            next \in {Join(done, rule_group(r, Head(names)))}} : TRUE

\* analyze() on the file: the analyzer afterwards, the returned value, and
\* whether an exception left the call (then nothing is returned)
analyze(self, file) ==
    IF ~file.wellformed
    THEN [self |-> self, returned |-> EmptyDict, raised |-> FALSE]
    ELSE CHOOSE outcome \in
             {LET r == file.root
                  issue_list == self.issues \o effect.issues
                  variables == self.process_variables \cup effect.process_variables
              IN  IF effect.raised
                  THEN [self |-> Analyzer(r, issue_list, self.statistics, variables),
                        returned |-> EmptyDict, raised |-> TRUE]
                  ELSE LET stats == calculate_statistics(r, issue_list, variables)
                       IN  [self |-> Analyzer(r, issue_list, stats, variables),
                            returned |-> report(stats, issue_list, variables),
                            raised |-> FALSE]
              : effect \in {run_groups(file.root, rule_groups, Fresh)}} : TRUE

\* print_report(): self.statistics['total_elements'] raises KeyError on the
\* empty statistics; nothing of the analyzer is written
print_report(self) ==
    [self |-> self, raised |-> "total_elements" \notin DOMAIN self.statistics]

\* export_json(): the analysis is run when the statistics are empty;
\* content is what json.dump writes
export_json(self, file) ==
    IF DOMAIN self.statistics = {}
    THEN CHOOSE e \in {[self |-> a.self, content |-> a.returned, raised |-> a.raised] :
                          a \in {analyze(self, file)}} : TRUE
    ELSE [self |-> self,
          content |-> report(self.statistics, self.issues, self.process_variables),
          raised |-> FALSE]

csv_header ==
    <<"Severity", "Category", "Element ID", "Element Name", "Message", "Details">>

csv_row(issue) ==
    <<issue.severity, issue.category, issue.element_id, issue.element_name,
      issue.message, issue.details>>

\* export_csv(): the header row and one row per issue
export_csv(self) ==
    [self |-> self,
     content |-> <<csv_header>> \o [i \in 1..Len(self.issues) |-> csv_row(self.issues[i])],
     raised |-> FALSE]

\* export_html(): the summary numbers, the issues by severity and the sorted
\* variables; KeyError on the empty statistics
export_html(self) ==
    IF "total_elements" \notin DOMAIN self.statistics
    THEN [self |-> self, content |-> EmptyDict, raised |-> TRUE]
    ELSE [self |-> self,
          content |-> [summary |-> self.statistics,
                       sections |-> [s \in Severity |->
                                        SelectSeq(self.issues, LAMBDA i : i.severity = s)],
                       variables |-> sorted(self.process_variables)],
          raised |-> FALSE]

\* open(output_file, 'w') followed by the write
write_file(files, name, content) ==
    [n \in DOMAIN files \cup {name} |-> IF n = name THEN content ELSE files[n]]

----------------------------------------------------------------------------
(* SpecMain: main() from the command line to the exit status.              *)

f_process == "process.bpmn"
f_missing == "missing.bpmn"

\* sys.argv[1:]
ArgvInputs ==
    {<<>>,
     <<f_process>>,
     <<f_missing>>,
     <<f_process, "--json", "report.json">>,
     <<f_process, "--csv", "report.csv">>,
     <<f_process, "--html", "report.html">>,
     <<f_process, "--json", "report.json", "--csv", "report.csv", "--html", "report.html">>,
     <<f_missing, "--json", "report.json">>,
     <<f_process, "--verbose", "--html", "report.html", "--json">>}

\* the files main() is run on
MainDocs == {Document(w, None, e) : w \in BOOLEAN, e \in ListsOver(Mixed)}

\* the option loop of main(): the value after the last --<name> that has one;
\* "" stands for None (both are false in `if export_json:`)
RECURSIVE option_from(_, _, _, _)
option_from(args, i, name, found) ==
    IF i > Len(args) THEN found
    ELSE IF args[i] \in {"--json", "--csv", "--html"} /\ i + 1 <= Len(args)
         THEN option_from(args, i + 2, name, IF args[i] = name THEN args[i + 1] ELSE found)
         ELSE option_from(args, i + 1, name, found)

option(args, name) == option_from(args, 2, name, "")

InitMain ==
    /\ argv \in ArgvInputs
    /\ doc \in IF argv = <<>> \/ Head(argv) = f_missing THEN {NoDoc} ELSE MainDocs
    /\ root = NoNode
    /\ issues = <<>>
    /\ statistics = EmptyDict
    /\ process_variables = {}
    /\ pc = "main"
    /\ result = EmptyDict
    /\ reports = <<>>
    /\ run = 1
    /\ expr = <<>>
    /\ prior = [issues |-> <<>>, process_variables |-> {}, group |-> "none"]
    /\ ret = {}
    /\ exit_status = <<>>
    /\ outputs = EmptyDict
    /\ calls = <<>>
    /\ uploads = EmptyDict
    /\ requests = EmptyDict

\* an uncaught exception ends the interpreter with status 1
Traceback ==
    /\ exit_status' = <<1>>
    /\ pc' = "exited"

\* if len(sys.argv) < 2: usage and sys.exit(1)
MainUsage ==
    /\ pc = "main"
    /\ Len(argv) < 1
    /\ exit_status' = <<1>>
    /\ pc' = "exited"
    /\ UNCHANGED <<doc, root, issues, statistics, process_variables, result, reports,
                   run, expr, prior, ret, argv, outputs, calls, uploads, requests>>

\* analyzer = BPMNAnalyzer(bpmn_file); analyzer.analyze()
MainAnalyze ==
    /\ pc = "main"
    /\ Len(argv) >= 1
    /\ \E a \in {analyze(NewSelf, doc)} :
           /\ SetSelf(a.self)
           /\ result' = a.returned
           /\ IF a.raised THEN Traceback
              ELSE pc' = "print_report" /\ UNCHANGED exit_status
    /\ UNCHANGED <<doc, reports, run, expr, prior, ret, argv, outputs, calls,
                   uploads, requests>>

\* analyzer.print_report()
MainPrintReport ==
    /\ pc = "print_report"
    /\ IF print_report(Self).raised THEN Traceback
       ELSE pc' = "export_json" /\ UNCHANGED exit_status
    /\ UNCHANGED <<doc, root, issues, statistics, process_variables, result, reports,
                   run, expr, prior, ret, argv, outputs, calls, uploads, requests>>

\* if export_json: analyzer.export_json(export_json)
MainExportJson ==
    /\ pc = "export_json"
    /\ \E name \in {option(argv, "--json")}, e \in {export_json(Self, doc)} :
           IF name = ""
           THEN /\ pc' = "export_csv"
                /\ UNCHANGED <<root, issues, statistics, process_variables, outputs,
                               exit_status>>
           ELSE /\ SetSelf(e.self)
                /\ IF e.raised THEN Traceback /\ UNCHANGED outputs
                   ELSE /\ outputs' = write_file(outputs, name, e.content)
                        /\ pc' = "export_csv"
                        /\ UNCHANGED exit_status
    /\ UNCHANGED <<doc, result, reports, run, expr, prior, ret, argv, calls,
                   uploads, requests>>

\* if export_csv: analyzer.export_csv(export_csv)
MainExportCsv ==
    /\ pc = "export_csv"
    /\ LET name == option(argv, "--csv")
       IN  outputs' = IF name = "" THEN outputs
                      ELSE write_file(outputs, name, export_csv(Self).content)
    /\ pc' = "export_html"
    /\ UNCHANGED <<doc, root, issues, statistics, process_variables, result, reports,
                   run, expr, prior, ret, argv, exit_status, calls, uploads, requests>>

\* if export_html: analyzer.export_html(export_html)
MainExportHtml ==
    /\ pc = "export_html"
    /\ \E name \in {option(argv, "--html")}, e \in {export_html(Self)} :
           IF name = ""
           THEN pc' = "main_return" /\ UNCHANGED <<outputs, exit_status>>
           ELSE IF e.raised THEN Traceback /\ UNCHANGED outputs
           ELSE /\ outputs' = write_file(outputs, name, e.content)
                /\ pc' = "main_return"
                /\ UNCHANGED exit_status
    /\ UNCHANGED <<doc, root, issues, statistics, process_variables, result, reports,
                   run, expr, prior, ret, argv, calls, uploads, requests>>

\* main() returns: the interpreter exits with status 0
MainReturn ==
    /\ pc = "main_return"
    /\ exit_status' = <<0>>
    /\ pc' = "exited"
    /\ UNCHANGED <<doc, root, issues, statistics, process_variables, result, reports,
                   run, expr, prior, ret, argv, outputs, calls, uploads, requests>>

NextMain ==
    \/ MainUsage
    \/ MainAnalyze
    \/ MainPrintReport
    \/ MainExportJson
    \/ MainExportCsv
    \/ MainExportHtml
    \/ MainReturn

SpecMain == InitMain /\ [][NextMain]_vars

----------------------------------------------------------------------------
(* SpecApi: a caller constructs one BPMNAnalyzer and calls analyze() and   *)
(* the exporters on it, in any order.                                      *)

\* the files the analyzer is constructed on
ApiDocs ==
    {Document(w, l, e) : w \in BOOLEAN, l \in {None, v_schema_good},
                         e \in {<<>>} \cup [1..1 -> Mixed]}

InitApi ==
    /\ doc \in ApiDocs
    /\ root = NoNode
    /\ issues = <<>>
    /\ statistics = EmptyDict
    /\ process_variables = {}
    /\ pc = "api"
    /\ result = EmptyDict
    /\ reports = <<>>
    /\ run = 1
    /\ expr = <<>>
    /\ prior = [issues |-> <<>>, process_variables |-> {}, group |-> "none",
                statistics |-> EmptyDict]
    /\ ret = {}
    /\ argv = <<>>
    /\ exit_status = <<>>
    /\ outputs = EmptyDict
    /\ calls = <<>>
    /\ uploads = EmptyDict
    /\ requests = EmptyDict

\* a method is called: the analyzer before the call is remembered
ApiCall(name) ==
    /\ pc = "api"
    /\ Len(calls) < MaxCalls
    /\ calls' = Append(calls, name)
    /\ prior' = [issues |-> issues, process_variables |-> process_variables,
                 group |-> name, statistics |-> statistics]
    /\ UNCHANGED <<doc, pc, run, expr, ret, argv, exit_status, uploads, requests>>

\* analyzer.analyze(); the returned value is kept when the call returns
ApiAnalyze ==
    /\ ApiCall("analyze")
    /\ \E a \in {analyze(Self, doc)} :
          /\ SetSelf(a.self)
          /\ result' = IF a.raised THEN result ELSE a.returned
          /\ reports' = IF a.raised THEN reports ELSE Append(reports, a.returned)
    /\ UNCHANGED outputs

\* analyzer.export_json("report.json")
ApiExportJson ==
    /\ ApiCall("export_json")
    /\ \E e \in {export_json(Self, doc)} :
          /\ SetSelf(e.self)
          /\ outputs' = IF e.raised THEN outputs
                        ELSE write_file(outputs, "report.json", e.content)
    /\ UNCHANGED <<result, reports>>

\* analyzer.export_csv("report.csv")
ApiExportCsv ==
    /\ ApiCall("export_csv")
    /\ \E e \in {export_csv(Self)} :
          /\ SetSelf(e.self)
          /\ outputs' = write_file(outputs, "report.csv", e.content)
    /\ UNCHANGED <<result, reports>>

\* analyzer.export_html("report.html")
ApiExportHtml ==
    /\ ApiCall("export_html")
    /\ \E e \in {export_html(Self)} :
          /\ SetSelf(e.self)
          /\ outputs' = IF e.raised THEN outputs
                        ELSE write_file(outputs, "report.html", e.content)
    /\ UNCHANGED <<result, reports>>

NextApi ==
    \/ ApiAnalyze
    \/ ApiExportJson
    \/ ApiExportCsv
    \/ ApiExportHtml

SpecApi == InitApi /\ [][NextApi]_vars

----------------------------------------------------------------------------
(* SpecOrder: a caller constructs one BPMNAnalyzer, calls parse() and then  *)
(* each of the thirteen validation methods once, in an order of its choice, *)
(* and builds the report as analyze() does.                                 *)

\* the files: one element of each of several rule groups, without and with a
\* gateway whose outgoing flow reference cannot be looked up
OrderDocs ==
    {Document(TRUE, None, e) : e \in
        {<<Node("bpmn:serviceTask", A2("id", id_s1, "camunda:class", v_class), <<>>, <<>>),
           Node("bpmn:complexGateway", A1("id", id_g1), <<>>, <<>>)>>,
         <<Node("bpmn:scriptTask", A2("id", id_c1, "camunda:scriptFormat", s_groovy), <<>>,
                <<TextNode("bpmn:script", v_body_x)>>),
           Node("bpmn:userTask", A2("id", id_u1, "camunda:formKey", v_embedded), <<>>, <<>>)>>,
         <<Node("bpmn:serviceTask", A2("id", id_s2, "camunda:delegateExpression",
                                       x_myDelegate), <<>>, <<>>),
           Node("bpmn:complexGateway", A1("id", id_g1), <<>>, <<Outgoing(id_quote)>>)>>}}

\* BPMNAnalyzer.__init__ and parse(), which returned True
InitOrder ==
    /\ doc \in OrderDocs
    /\ root = doc.root
    /\ issues = <<>>
    /\ statistics = EmptyDict
    /\ process_variables = {}
    /\ pc = "order"
    /\ result = EmptyDict
    /\ reports = <<>>
    /\ run = 1
    /\ expr = <<>>
    /\ prior = [issues |-> <<>>, process_variables |-> {}, group |-> "none"]
    /\ ret = {}
    /\ argv = <<>>
    /\ exit_status = <<>>
    /\ outputs = EmptyDict
    /\ calls = {}
    /\ uploads = EmptyDict
    /\ requests = EmptyDict

\* one validation method not called yet is called: it appends to self.issues
\* and adds to self.process_variables; its exception ends the calls
OrderGroup(name) ==
    /\ pc = "order"
    /\ name \notin calls
    /\ calls' = calls \cup {name}
    /\ prior' = [issues |-> issues, process_variables |-> process_variables,
                 group |-> name]
    /\ \E effect \in {rule_group(root, name)} :
          /\ issues' = issues \o effect.issues
          /\ process_variables' = process_variables \cup effect.process_variables
          /\ pc' = IF effect.raised THEN "raised" ELSE "order"
    /\ UNCHANGED <<doc, root, statistics, result, reports, run, expr, ret, argv,
                   exit_status, outputs, uploads, requests>>

\* every method was called: calculate_statistics() and the report
OrderReturn ==
    /\ pc = "order"
    /\ calls = {rule_groups[n] : n \in 1..Len(rule_groups)}
    /\ statistics' = calculate_statistics(root, issues, process_variables)
    /\ result' = report(statistics', issues, process_variables)
    /\ reports' = Append(reports, result')
    /\ pc' = "done"
    /\ UNCHANGED <<doc, root, issues, process_variables, run, expr, prior, ret, env>>

NextOrder ==
    \/ \E n \in 1..Len(rule_groups) : OrderGroup(rule_groups[n])
    \/ OrderReturn

SpecOrder == InitOrder /\ [][NextOrder]_vars

----------------------------------------------------------------------------
(* SpecUpload: the upload handler of src/app.py.  The development server   *)
(* of app.run() serves every request in a thread of its own, so the steps *)
(* of two requests interleave; the upload folder is shared.                *)

s_bpmn == <<"b","p","m","n">>
s_xml == <<"x","m","l">>

\* ALLOWED_EXTENSIONS
ALLOWED_EXTENSIONS == {s_bpmn, s_xml}

\* filename.rsplit('.', 1)[1]: the part after the last "."
AfterLastDot(filename) ==
    LET last == CHOOSE i \in 1..Len(filename) :
                    filename[i] = "." /\ \A j \in (i + 1)..Len(filename) : filename[j] # "."
    IN  SubSeq(filename, last + 1, Len(filename))

allowed_file(filename) ==
    /\ \E i \in 1..Len(filename) : filename[i] = "."
    /\ Lower(AfterLastDot(filename)) \in ALLOWED_EXTENSIONS

\* "_".join(filename.split()): the words of the name joined by "_"
RECURSIVE JoinWords(_)
JoinWords(s) ==
    IF s = <<>> THEN <<>>
    ELSE IF Head(s) \in Whitespace
         THEN (IF LStrip(s) = <<>> THEN <<>> ELSE <<"_">> \o JoinWords(LStrip(s)))
         ELSE <<Head(s)>> \o JoinWords(Tail(s))

\* the characters secure_filename keeps: [A-Za-z0-9_.-]
SafeChar(c) ==
    \/ \E k \in 1..Len(UpperCase) : c \in {UpperCase[k], LowerCase[k]}
    \/ c \in {"0", "1", "2", "3", "4", "5", "6", "7", "8", "9", "_", ".", "-"}

\* str.strip("._")
RECURSIVE StripDots(_)
StripDots(s) ==
    IF s # <<>> /\ Head(s) \in {".", "_"} THEN StripDots(Tail(s))
    ELSE IF s # <<>> /\ s[Len(s)] \in {".", "_"} THEN StripDots(SubSeq(s, 1, Len(s) - 1))
    ELSE s

\* werkzeug.utils.secure_filename on ASCII names: path separators become
\* blanks, the words are joined by "_", every character outside
\* [A-Za-z0-9_.-] is dropped, leading and trailing "." and "_" are stripped
secure_filename(filename) ==
    LET spaced == [i \in 1..Len(filename) |->
                      IF filename[i] = "/" THEN " " ELSE filename[i]]
    IN  StripDots(SelectSeq(JoinWords(LStrip(spaced)), SafeChar))

n_p_bpmn == <<"p",".","b","p","m","n">>
n_up_p_bpmn == <<".",".","/","p",".","b","p","m","n">>
n_P_XML == <<"m","y"," ","p",".","X","M","L">>
n_q_xml == <<"q",".","x","m","l">>
n_notes_txt == <<"n","o","t","e","s",".","t","x","t">>
n_noext == <<"b","p","m","n">>

\* the names of the uploaded files
UploadNames == {n_p_bpmn, n_up_p_bpmn, n_P_XML, n_q_xml, n_notes_txt, n_noext}

\* the contents of the uploaded files: two well-formed files, a file that is
\* not well-formed, and a file with an apostrophe in a flow reference
UploadDocs ==
    {Document(TRUE, None, <<Node("bpmn:serviceTask",
                                 A2("id", id_s1, "camunda:class", v_class), <<>>, <<>>)>>),
     Document(TRUE, v_schema_good,
              <<Node("bpmn:userTask", A2("id", id_u1, "camunda:formKey", v_http), <<>>, <<>>),
                Node("bpmn:scriptTask", A2("id", id_c1, "camunda:scriptFormat", s_groovy),
                     <<>>, <<TextNode("bpmn:script", v_body_x)>>)>>),
     Document(FALSE, None, <<Node("bpmn:serviceTask",
                                  A2("id", id_s1, "camunda:class", v_class), <<>>, <<>>)>>),
     Document(TRUE, None, <<Node("bpmn:complexGateway", A1("id", id_g1), <<>>,
                                 <<Outgoing(id_quote)>>)>>)}

\* request.files: no file part, a file part without a name, or a named file
UploadInputs ==
    {[has_file |-> FALSE, filename |-> <<>>, content |-> NoDoc],
     [has_file |-> TRUE, filename |-> <<>>, content |-> NoDoc]}
    \cup {[has_file |-> TRUE, filename |-> n, content |-> d] :
             n \in UploadNames, d \in UploadDocs}

\* the requests served concurrently
Requests == {"r1", "r2"}

NewRequest(input) ==
    [input |-> input, pc |-> "received", filepath |-> <<>>, result |-> EmptyDict,
     response |-> EmptyDict]

\* jsonify({'error': ...}), status
ErrorResponse(status, error) ==
    [status |-> status, body |-> [error |-> error]]

\* jsonify({'success': True, 'data': result})
SuccessResponse(data) ==
    [status |-> 200, body |-> [success |-> TRUE, data |-> data]]

InitUpload ==
    /\ requests \in [Requests -> {NewRequest(i) : i \in UploadInputs}]
    /\ uploads = EmptyDict
    /\ doc = NoDoc
    /\ root = NoNode
    /\ issues = <<>>
    /\ statistics = EmptyDict
    /\ process_variables = {}
    /\ pc = "serving"
    /\ result = EmptyDict
    /\ reports = <<>>
    /\ run = 0
    /\ expr = <<>>
    /\ prior = [issues |-> <<>>, process_variables |-> {}, group |-> "none"]
    /\ ret = {}
    /\ argv = <<>>
    /\ exit_status = <<>>
    /\ outputs = EmptyDict
    /\ calls = <<>>

\* the file at the path, as ET.parse finds it: a missing file fails to parse
FileAt(folder, path) == IF path \in DOMAIN folder THEN folder[path] ELSE NoDoc

\* os.remove(filepath)
remove_file(folder, path) == [n \in DOMAIN folder \ {path} |-> folder[n]]

\* what a step of request r leaves alone
UploadFrame ==
    UNCHANGED <<doc, root, pc, issues, statistics, process_variables, result, reports,
                run, expr, prior, ret, argv, exit_status, outputs, calls>>

\* the three checks before the save: 400 with an error description
UploadReject(r) ==
    /\ requests[r].pc = "received"
    /\ LET input == requests[r].input
           error == IF ~input.has_file THEN "No file uploaded"
                    ELSE IF input.filename = <<>> THEN "No file selected"
                    ELSE "Invalid file type. Only .bpmn and .xml files are allowed"
       IN  /\ ~input.has_file \/ input.filename = <<>> \/ ~allowed_file(input.filename)
           /\ requests' = [requests EXCEPT ![r].pc = "responded",
                                           ![r].response = ErrorResponse(400, error)]
    /\ UNCHANGED uploads
    /\ UploadFrame

\* filename = secure_filename(file.filename); file.save(filepath)
UploadSave(r) ==
    /\ requests[r].pc = "received"
    /\ LET input == requests[r].input
       IN  /\ input.has_file /\ input.filename # <<>> /\ allowed_file(input.filename)
           /\ \E path \in {secure_filename(input.filename)} :
                 /\ uploads' = write_file(uploads, path, input.content)
                 /\ requests' = [requests EXCEPT ![r].pc = "saved", ![r].filepath = path]
    /\ UploadFrame

\* analyzer = BPMNAnalyzer(filepath); result = analyzer.analyze()
UploadAnalyze(r) ==
    /\ requests[r].pc = "saved"
    /\ \E a \in {analyze(NewSelf, FileAt(uploads, requests[r].filepath))} :
          requests' = [requests EXCEPT ![r].pc = IF a.raised THEN "except" ELSE "analyzed",
                                       ![r].result = a.returned]
    /\ UNCHANGED uploads
    /\ UploadFrame

\* os.remove(filepath): FileNotFoundError when the file is gone
UploadRemove(r) ==
    /\ requests[r].pc = "analyzed"
    /\ IF requests[r].filepath \in DOMAIN uploads
       THEN /\ uploads' = remove_file(uploads, requests[r].filepath)
            /\ requests' = [requests EXCEPT ![r].pc = "removed"]
       ELSE /\ requests' = [requests EXCEPT ![r].pc = "except"]
            /\ UNCHANGED uploads
    /\ UploadFrame

\* return jsonify({'success': True, 'data': result})
UploadRespond(r) ==
    /\ requests[r].pc = "removed"
    /\ requests' = [requests EXCEPT ![r].pc = "responded",
                                    ![r].response = SuccessResponse(requests[r].result)]
    /\ UNCHANGED uploads
    /\ UploadFrame

\* mutant: the exception handler answers without removing the file
UploadExceptNoCleanup(r) ==
    /\ requests[r].pc = "except"
    /\ requests' = [requests EXCEPT ![r].pc = "responded",
                        ![r].response = ErrorResponse(500, "Analysis failed")]
    /\ UNCHANGED uploads
    /\ UploadFrame

\* except Exception: if 'filepath' in locals() and os.path.exists(filepath)
UploadExcept(r) ==
    /\ requests[r].pc = "except"
    /\ IF requests[r].filepath \in DOMAIN uploads
       THEN requests' = [requests EXCEPT ![r].pc = "except_remove"]
       ELSE requests' = [requests EXCEPT ![r].pc = "responded",
                             ![r].response = ErrorResponse(500, "Analysis failed")]
    /\ UNCHANGED uploads
    /\ UploadFrame

\* os.remove(filepath) in the handler; when the file is gone by now the
\* exception leaves the view and the server answers 500 itself
UploadExceptRemove(r) ==
    /\ requests[r].pc = "except_remove"
    /\ IF requests[r].filepath \in DOMAIN uploads
       THEN /\ uploads' = remove_file(uploads, requests[r].filepath)
            /\ requests' = [requests EXCEPT ![r].pc = "responded",
                                ![r].response = ErrorResponse(500, "Analysis failed")]
       ELSE /\ requests' = [requests EXCEPT ![r].pc = "responded",
                                ![r].response = ErrorResponse(500, "Internal Server Error")]
            /\ UNCHANGED uploads
    /\ UploadFrame

NextUpload ==
    \E r \in Requests :
        \/ UploadReject(r)
        \/ UploadSave(r)
        \/ UploadAnalyze(r)
        \/ UploadRemove(r)
        \/ UploadRespond(r)
        \/ UploadExcept(r)
        \/ UploadExceptRemove(r)

SpecUpload == InitUpload /\ [][NextUpload]_vars

----------------------------------------------------------------------------
(* Claims about the expression operations (checked under SpecExpr).        *)

\* the issues the last call or rule group appended
Appended == SubSeq(issues, Len(prior.issues) + 1, Len(issues))

\* the string holds the two-character marker ${ or #{
HasMarker(s) ==
    \E i \in 1..(Len(s) - 1) : s[i] \in {"$", "#"} /\ s[i + 1] = "{"

\* the string holds a closing brace anywhere
HasClose(s) == \E i \in 1..Len(s) : s[i] = "}"

ExpressionIssues(seq) == SelectSeq(seq, LAMBDA i : i.category = "Expression")

\* C1: for every non-empty string containing ${ or #{, one call of
\* validate_expression_syntax appends at least one CRITICAL "Expression"
\* issue, and afterwards the variable set contains every name that
\* extract_variables_from_expression returned for the string.
C1_MarkerCriticalAndVars ==
    (pc = "expr_validated" /\ Truthy(expr) /\ HasMarker(expr)) =>
        /\ \E i \in 1..Len(Appended) :
              Appended[i].severity = "CRITICAL" /\ Appended[i].category = "Expression"
        /\ ret \subseteq process_variables

C1_Witness ==
    /\ pc = "expr_validated"
    /\ expr = x_two
    /\ Len(Appended) = 1
    /\ ret = {<<"a">>, <<"b">>}
    /\ prior.issues # <<>>

\* C2: the number of "Expression" issues one validator call appends is 0
\* without a marker, exactly 2 (legacy syntax, then malformed, both CRITICAL)
\* with a marker and no "}" anywhere, and exactly 1 (legacy syntax) with a
\* marker and a "}" anywhere in the string.
C2_ExpressionIssueCount ==
    pc = "expr_validated" =>
        LET e == ExpressionIssues(Appended)
        IN  /\ Len(e) = Len(Appended)
            /\ (~Truthy(expr) \/ ~HasMarker(expr)) => Len(e) = 0
            /\ (Truthy(expr) /\ HasMarker(expr) /\ ~HasClose(expr)) =>
                  /\ Len(e) = 2
                  /\ e[1].severity = "CRITICAL" /\ e[2].severity = "CRITICAL"
                  /\ e[1].message[1] = "JUEL/UEL expression detected in "
                  /\ e[2].message[1] = "Malformed expression in "
            /\ (Truthy(expr) /\ HasMarker(expr) /\ HasClose(expr)) =>
                  /\ Len(e) = 1
                  /\ e[1].severity = "CRITICAL"
                  /\ e[1].message[1] = "JUEL/UEL expression detected in "

C2_Witness ==
    /\ pc = "expr_validated"
    /\ expr = x_closed_then_open
    /\ Len(ExpressionIssues(Appended)) = 1

\* the matches of [$#]{...}: s[i..j] starts with a marker, ends with the first
\* "}" after the marker, and holds at least one character in between
Candidates(s) ==
    {c \in (1..Len(s)) \X (1..Len(s)) :
        /\ c[1] + 2 < c[2]
        /\ s[c[1]] \in {"$", "#"} /\ s[c[1] + 1] = "{"
        /\ s[c[2]] = "}"
        /\ \A k \in (c[1] + 2)..(c[2] - 1) : s[k] # "}"}

\* the matches a left-to-right search reports: of the candidates ending at the
\* same brace, the leftmost
Matches(s) ==
    {c \in Candidates(s) : ~\E d \in Candidates(s) : d[2] = c[2] /\ d[1] < c[1]}

Inner(s, c) == SubSeq(s, c[1] + 2, c[2] - 1)

NameDelims == {".", "[", "(", " ", "\t", "\n", "\r", "\f"}

\* the part of the text before the first ".", "[", "(" or whitespace
NamePart(t) ==
    CHOOSE p \in {SubSeq(t, 1, n) : n \in 0..Len(t)} :
        /\ \A k \in 1..Len(p) : p[k] \notin NameDelims
        /\ (Len(p) = Len(t) \/ t[Len(p) + 1] \in NameDelims)

NamesOf(s) == {NamePart(Inner(s, c)) : c \in Matches(s)}

\* C3 as stated: the extractor returns exactly the parts before the first
\* delimiter of the inner texts of the matches.
C3_ExtractExactAsStated ==
    pc = "expr_extracted" => ret = NamesOf(expr)

\* C3 (amended): the extractor returns exactly the non-empty parts before the
\* first ".", "[", "(" or whitespace of the inner texts of the matches of
\* ${...} or #{...} (up to the first "}"); empty or missing input gives the
\* empty set, ${myDelegate} gives {myDelegate}, ${order.total} gives {order}.
C3_ExtractExact ==
    pc = "expr_extracted" =>
        /\ ret = NamesOf(expr) \ {<<>>}
        /\ expr \in {None, <<>>} => ret = {}
        /\ expr = x_myDelegate => ret = {s_myDelegate}
        /\ expr = x_order_total => ret = {s_order}

C3_Witness ==
    /\ pc = "expr_extracted"
    /\ expr = x_sp_a
    /\ NamesOf(expr) = {<<>>}
    /\ ret = {}

----------------------------------------------------------------------------
(* Claims about runs of analyze() (checked under Spec).                    *)

\* the elements of the process of the input file
ProcessElements == doc.root.kids[1].kids

\* the nodes with the given tag anywhere in the parsed tree
NodesOf(tag) ==
    LET all == Descendants(root.kids)
    IN  {i \in 1..Len(all) : all[i].tag = tag}

NodeAt(i) == Descendants(root.kids)[i]

\* the identifier an issue carries for a node
IdOf(n) == IF "id" \in DOMAIN n.attrs THEN n.attrs["id"] ELSE s_unknown

RECURSIVE SumOf(_, _)
SumOf(f, S) ==
    IF S = {} THEN 0
    ELSE LET x == CHOOSE x \in S : TRUE
         IN  f[x] + SumOf(f, S \ {x})

\* C4: in every report of analyze() on a parsable document the issue counts
\* of the three severities add up to total_issues, which is the number of
\* issues of the report, and the element counts add up to total_elements.
C4_StatisticsSums ==
    pc = "done" =>
        LET st == result.statistics
        IN  /\ st.issue_counts_by_severity.CRITICAL + st.issue_counts_by_severity.WARNING
                 + st.issue_counts_by_severity.INFO = st.total_issues
            /\ DOMAIN st.issue_counts_by_severity = {"CRITICAL", "WARNING", "INFO"}
            /\ st.total_issues = Len(result.issues)
            /\ SumOf(st.element_counts, DOMAIN st.element_counts) = st.total_elements

C4_Witness ==
    /\ pc = "done"
    /\ result.statistics.issue_counts_by_severity.CRITICAL >= 1
    /\ result.statistics.issue_counts_by_severity.WARNING >= 2
    /\ result.statistics.total_elements = 2

\* the (severity, category, element_id, message) tuples of a returned value,
\* as a multiset: tuple -> number of occurrences
IssueTuple(i) == <<i.severity, i.category, i.element_id, i.message>>

IssueBag(r) ==
    IF "issues" \in DOMAIN r
    THEN [t \in {IssueTuple(r.issues[i]) : i \in 1..Len(r.issues)} |->
             Cardinality({i \in 1..Len(r.issues) : IssueTuple(r.issues[i]) = t})]
    ELSE EmptyDict

\* C5: two analyses of the unchanged document return reports with the same
\* multiset of (severity, category, element_id, message) tuples.
C5_SameIssueBag ==
    \A i, j \in 1..Len(reports) :
        /\ DOMAIN reports[i] = DOMAIN reports[j]
        /\ IssueBag(reports[i]) = IssueBag(reports[j])

C5_Witness ==
    /\ Len(reports) = 2
    /\ "issues" \in DOMAIN reports[2]
    /\ Len(reports[2].issues) >= 3
    /\ \E i, j \in 1..Len(reports[2].issues) :
          i # j /\ IssueTuple(reports[2].issues[i]) = IssueTuple(reports[2].issues[j])

\* C6: when the document fails to parse, no rule group and no statistics run:
\* no issue, empty statistics and variable set, and analyze() returns a value
\* without statistics, issues or variables.
C6_ParseFailureShortCircuits ==
    ~doc.wellformed =>
        /\ pc \in {"analyze", "failed"}
        /\ issues = <<>>
        /\ DOMAIN statistics = {}
        /\ process_variables = {}
        /\ ~IsNode(root)
        /\ pc = "failed" =>
              /\ Len(reports) = run
              /\ DOMAIN reports[run] = {}
              /\ DOMAIN result = {}

C6_Witness ==
    /\ ~doc.wellformed
    /\ pc = "failed"
    /\ run = 2
    /\ Len(ProcessElements) = 2
    /\ ProcessElements[1].tag = "bpmn:serviceTask"

\* a service task with an implementation class and nothing else
IsClassOnlyServiceTask(n) ==
    /\ n.tag = "bpmn:serviceTask"
    /\ "camunda:class" \in DOMAIN n.attrs
    /\ n.attrs["camunda:class"] = v_class
    /\ DOMAIN n.attrs \subseteq {"id", "name", "camunda:class"}
    /\ n.kids = <<>>

IsBareComplexGateway(n) ==
    /\ n.tag = "bpmn:complexGateway"
    /\ DOMAIN n.attrs \subseteq {"id", "name"}
    /\ n.kids = <<>>

\* the process holds exactly one such service task and one complex gateway
IsMinimalDocument ==
    /\ doc.wellformed
    /\ Len(ProcessElements) = 2
    /\ \E i, j \in 1..2 :
          /\ i # j
          /\ IsClassOnlyServiceTask(ProcessElements[i])
          /\ IsBareComplexGateway(ProcessElements[j])

CriticalIssues(seq) == SelectSeq(seq, LAMBDA i : i.severity = "CRITICAL")

\* C7: a document whose only process elements are one serviceTask with
\* class="com.acme.MyDelegate" and one complexGateway yields exactly two
\* CRITICAL issues, one "Service Task" and one "Gateway", and no variables.
C7_MinimalDocument ==
    (pc = "done" /\ IsMinimalDocument) =>
        LET c == CriticalIssues(result.issues)
        IN  /\ Len(c) = 2
            /\ {c[1].category, c[2].category} = {"Service Task", "Gateway"}
            /\ result.process_variables = <<>>
            /\ result.statistics.total_variables_detected = 0

C7_Witness ==
    /\ pc = "done"
    /\ IsMinimalDocument
    /\ Len(CriticalIssues(result.issues)) = 2
    /\ Len(result.issues) = 3

\* the declared script format (the scriptFormat attribute the rule reads),
\* compared in lower case
FormatClass(n) ==
    LET f == IF "camunda:scriptFormat" \in DOMAIN n.attrs
             THEN n.attrs["camunda:scriptFormat"] ELSE <<>>
    IN  IF f = <<>> THEN "none"
        ELSE IF Lower(f) = s_feel THEN "feel"
        ELSE IF Lower(f) \in {s_groovy, s_javascript} THEN "limited"
        ELSE "unsupported"

\* number of issues of a sequence with the given severity, category and element
CountIssues(seq, severity, category, id) ==
    Len(SelectSeq(seq, LAMBDA i :
        i.severity = severity /\ i.category = category /\ i.element_id = id))

\* C8: validate_script_tasks emits, per scriptTask, exactly one CRITICAL
\* "Script Task" issue for a format outside {feel, javascript, groovy}
\* (case-insensitively), exactly one WARNING for groovy or javascript, none
\* for feel or no format; a script body adds variables and never an issue.
C8_ScriptTaskIssues ==
    prior.group = "validate_script_tasks" =>
        /\ \A i \in 1..Len(Appended) : Appended[i].category = "Script Task"
        /\ \A k \in NodesOf("bpmn:scriptTask") :
              LET id == IdOf(NodeAt(k))
                  same(class) == Cardinality({l \in NodesOf("bpmn:scriptTask") :
                                     IdOf(NodeAt(l)) = id /\ FormatClass(NodeAt(l)) = class})
              IN  /\ CountIssues(Appended, "CRITICAL", "Script Task", id) = same("unsupported")
                  /\ CountIssues(Appended, "WARNING", "Script Task", id) = same("limited")
                  /\ CountIssues(Appended, "INFO", "Script Task", id) = 0
        /\ Len(Appended) <= Cardinality(NodesOf("bpmn:scriptTask"))

C8_Witness ==
    /\ prior.group = "validate_script_tasks"
    /\ \E k, l \in NodesOf("bpmn:scriptTask") :
          /\ NodeAt(k).attrs = A1("camunda:scriptFormat", v_Groovy)
          /\ FormatClass(NodeAt(l)) = "feel"
          /\ NodeAt(l).kids # <<>>
    /\ Len(Appended) = 1
    /\ Appended[1].severity = "WARNING"
    /\ process_variables # {}

\* C9 as stated: every complexGateway yields exactly one CRITICAL "Gateway"
\* issue and every eventBasedGateway exactly one WARNING "Gateway" issue,
\* whatever its outgoing flows refer to; the other gateways yield none.
C9_GatewayIssuesAsStated ==
    prior.group = "validate_gateways" =>
        LET gw == SelectSeq(Appended, LAMBDA i : i.category = "Gateway")
            ids == {IdOf(NodeAt(k)) : k \in NodesOf("bpmn:complexGateway")
                                         \cup NodesOf("bpmn:eventBasedGateway")}
        IN  /\ \A id \in ids :
                  /\ CountIssues(gw, "CRITICAL", "Gateway", id) =
                        Cardinality({k \in NodesOf("bpmn:complexGateway") :
                                        IdOf(NodeAt(k)) = id})
                  /\ CountIssues(gw, "WARNING", "Gateway", id) =
                        Cardinality({k \in NodesOf("bpmn:eventBasedGateway") :
                                        IdOf(NodeAt(k)) = id})
            /\ Len(gw) = Cardinality(NodesOf("bpmn:complexGateway"))
                           + Cardinality(NodesOf("bpmn:eventBasedGateway"))

\* the form key begins with a prefix of an embedded form
HasEmbeddedPrefix(key) ==
    \E p \in {s_embedded_prefix, s_camunda_forms_prefix} :
        Len(key) >= Len(p) /\ \A i \in 1..Len(p) : key[i] = p[i]

FormKeyClass(n) ==
    LET key == IF "camunda:formKey" \in DOMAIN n.attrs
               THEN n.attrs["camunda:formKey"] ELSE <<>>
    IN  IF key = <<>> THEN "none"
        ELSE IF HasEmbeddedPrefix(key) THEN "embedded" ELSE "external"

\* the "User Task" issues about a form key
FormKeyIssues(seq) ==
    SelectSeq(seq, LAMBDA i : i.category = "User Task" /\ i.details[1] = "Form key: ")

\* C10: validate_user_tasks emits, per userTask with a non-empty form key,
\* exactly one "User Task" issue for the key: CRITICAL when the key begins
\* with an embedded-form prefix, WARNING otherwise, never both.
C10_FormKeyIssues ==
    prior.group = "validate_user_tasks" =>
        LET fk == FormKeyIssues(Appended)
        IN  /\ \A k \in NodesOf("bpmn:userTask") :
                  LET id == IdOf(NodeAt(k))
                      same(class) == Cardinality({l \in NodesOf("bpmn:userTask") :
                                         IdOf(NodeAt(l)) = id /\ FormKeyClass(NodeAt(l)) = class})
                  IN  /\ CountIssues(fk, "CRITICAL", "User Task", id) = same("embedded")
                      /\ CountIssues(fk, "WARNING", "User Task", id) = same("external")
                      /\ CountIssues(fk, "INFO", "User Task", id) = 0
            /\ Len(fk) = Cardinality({k \in NodesOf("bpmn:userTask") :
                                         FormKeyClass(NodeAt(k)) # "none"})

C10_Witness ==
    /\ prior.group = "validate_user_tasks"
    /\ Len(ProcessElements) = 2
    /\ FormKeyClass(ProcessElements[1]) = "embedded"
    /\ FormKeyClass(ProcessElements[2]) = "external"
    /\ Len(FormKeyIssues(Appended)) = 2
    /\ FormKeyIssues(Appended)[1].severity = "CRITICAL"
    /\ FormKeyIssues(Appended)[2].severity = "WARNING"

\* the events the event rules visit
EventNodes ==
    UNION {NodesOf(event_types[t]) : t \in 1..Len(event_types)}

TimeTags == {"bpmn:timeDate", "bpmn:timeDuration", "bpmn:timeCycle"}

\* the non-empty timer values of an event: the first child of each time tag
\* of its first timer definition
TimerValues(ev) ==
    LET defs == SelectSeq(ev.kids, LAMBDA k : k.tag = "bpmn:timerEventDefinition")
        first(tag) == SelectSeq(defs[1].kids, LAMBDA k : k.tag = tag)
    IN  IF defs = <<>> THEN {}
        ELSE {<<tag, first(tag)[1].text>> : tag \in {t \in TimeTags :
                  first(t) # <<>> /\ first(t)[1].text # <<>>}}

\* the value with leading and trailing blanks removed begins with P or =
IsoOrFeel(value) ==
    \E i \in 1..Len(value) :
        /\ value[i] \in {"P", "="}
        /\ \A j \in 1..(i - 1) : value[j] \in Whitespace

\* number of timer values of the events with the given id that are of the
\* given kind: "nonstandard" (begin neither with P nor =) or "legacy" (hold a
\* ${ or #{ marker)
TimerCount(id, kind) ==
    LET evs == {k \in EventNodes : IdOf(NodeAt(k)) = id}
        is(value) == IF kind = "legacy" THEN HasMarker(value) ELSE ~IsoOrFeel(value)
    IN  SumOf([k \in evs |-> Cardinality({v \in TimerValues(NodeAt(k)) : is(v[2])})], evs)

\* C11: for each timer value validate_timer_event emits exactly one WARNING
\* "Timer" issue when the trimmed value begins neither with P nor with =,
\* none otherwise, and in both cases passes the value to the expression
\* validator (a value with a legacy marker gets its "Expression" issue).
C11_TimerWarnings ==
    (prior.group = "validate_events" /\ pc # "raised") =>
        \A k \in EventNodes :
            LET id == IdOf(NodeAt(k))
                timers == SelectSeq(Appended, LAMBDA i : i.category = "Timer")
                legacy == SelectSeq(Appended, LAMBDA i :
                              /\ i.category = "Expression"
                              /\ i.message[1] = "JUEL/UEL expression detected in "
                              /\ i.message[2][1] = "timer ")
            IN  /\ CountIssues(timers, "WARNING", "Timer", id) = TimerCount(id, "nonstandard")
                /\ CountIssues(timers, "CRITICAL", "Timer", id) = 0
                /\ CountIssues(timers, "INFO", "Timer", id) = 0
                /\ CountIssues(legacy, "CRITICAL", "Expression", id) = TimerCount(id, "legacy")
                /\ \A v \in TimerValues(NodeAt(k)) : NamesOf(v[2]) \ {<<>>} \subseteq process_variables

C11_Witness ==
    /\ prior.group = "validate_events"
    /\ pc # "raised"
    /\ \E k, l \in EventNodes :
          /\ <<"bpmn:timeDuration", v_10M>> \in TimerValues(NodeAt(k))
          /\ <<"bpmn:timeCycle", v_timer_expr>> \in TimerValues(NodeAt(k))
          /\ <<"bpmn:timeDate", v_PT10M_padded>> \in TimerValues(NodeAt(l))
    /\ Len(SelectSeq(Appended, LAMBDA i : i.category = "Timer")) = 3

\* C12 as stated: main() exits with a non-zero status when no input path is
\* given and with status zero in every other case, an unparsable input file
\* included.
C12_ExitStatusAsStated ==
    pc = "exited" =>
        IF Len(argv) < 1 THEN exit_status # <<0>> ELSE exit_status = <<0>>

----------------------------------------------------------------------------
(* Claims about the upload handler (checked under SpecUpload).             *)

\* the requests that were handed to the analyzer and have been answered
Answered == {r \in Requests : requests[r].pc = "responded" /\ requests[r].filepath # <<>>}

IsSuccess(response) == "success" \in DOMAIN response.body

IsError(response) == "error" \in DOMAIN response.body

\* C13 as stated: a request handed to the analyzer is answered with exactly
\* one complete report when the analysis succeeds and with one error
\* description when it fails; an unparsable document is answered with an
\* error, never with a success response.
C13_UploadAnswerAsStated ==
    \A r \in Answered :
        LET response == requests[r].response
        IN  /\ IsSuccess(response) # IsError(response)
            /\ IsSuccess(response) =>
                  {"statistics", "issues", "process_variables"}
                      \subseteq DOMAIN response.body.data
            /\ ~requests[r].input.content.wellformed => IsError(response)

\* the answer the handler gives to a request served alone
upload_alone(input) ==
    IF ~input.has_file THEN ErrorResponse(400, "No file uploaded")
    ELSE IF input.filename = <<>> THEN ErrorResponse(400, "No file selected")
    ELSE IF ~allowed_file(input.filename)
    THEN ErrorResponse(400, "Invalid file type. Only .bpmn and .xml files are allowed")
    ELSE CHOOSE response \in
             {IF a.raised THEN ErrorResponse(500, "Analysis failed")
              ELSE SuccessResponse(a.returned) : a \in {analyze(NewSelf, input.content)}} : TRUE

\* C15 as stated: whatever the interleaving of two requests, two uploads with
\* equal sanitized file names included, each request gets the answer it
\* would get when served alone.
C15_IsolatedRunsAsStated ==
    \A r \in Requests :
        requests[r].pc = "responded" =>
            requests[r].response = upload_alone(requests[r].input)

----------------------------------------------------------------------------
(* Claims about the exporters (checked under SpecApi).                     *)

Exporters == {"export_json", "export_csv", "export_html"}

\* C14 as stated: export_json, export_csv and export_html, called in any
\* order and in any state of the analyzer, leave its issues, statistics and
\* variable set unchanged (and so run no rule group).
C14_ExportersPureAsStated ==
    (calls # <<>> /\ calls[Len(calls)] \in Exporters) =>
        /\ issues = prior.issues
        /\ statistics = prior.statistics
        /\ process_variables = prior.process_variables

----------------------------------------------------------------------------
(* Claims about the variables of the report.                                *)

\* the expressions written into the "JUEL/UEL expression detected" issues of
\* the run: the expressions the validator scanned that hold a marker
ScannedExpressions ==
    {issues[i].details[2] : i \in {j \in 1..Len(issues) :
        /\ issues[j].category = "Expression"
        /\ issues[j].message[1] = "JUEL/UEL expression detected in "}}

\* the non-empty script bodies of the script tasks of the document
ScriptBodies ==
    {b \in {LET scripts == SelectSeq(NodeAt(k).kids, LAMBDA n : n.tag = "bpmn:script")
            IN  IF scripts = <<>> THEN <<>> ELSE scripts[1].text :
            k \in NodesOf("bpmn:scriptTask")} : b \notin {<<>>, None}}

\* C16: in the report analyze() returns, process_variables is a strictly
\* increasing list (sorted by code point, no duplicates) holding exactly the
\* variable names of the expressions and script bodies scanned in the run,
\* and statistics.total_variables_detected is its length.
C16_ReportVariables ==
    pc = "done" =>
        LET names == result.process_variables
        IN  /\ \A i \in 1..(Len(names) - 1) : StrLess(names[i], names[i + 1])
            /\ {names[i] : i \in 1..Len(names)} =
                   UNION {NamesOf(e) \ {<<>>} : e \in ScannedExpressions \cup ScriptBodies}
            /\ result.statistics.total_variables_detected = Len(names)

C16_Witness ==
    /\ pc = "done"
    /\ Len(result.process_variables) >= 2
    /\ ScannedExpressions # {}
    /\ ScriptBodies # {}
    /\ \E e \in ScannedExpressions : \E b \in ScriptBodies :
          /\ NamesOf(e) \ {<<>>} # {}
          /\ NamesOf(b) \ NamesOf(e) # {}

----------------------------------------------------------------------------
(* Claims about the service tasks.                                          *)

AttrOf(n, a) == IF a \in DOMAIN n.attrs THEN n.attrs[a] ELSE None

Present(v) == v \notin {None, <<>>}

\* the "JUEL/UEL expression detected" issues of seq for an element, a value
\* and a context
LegacyCount(seq, id, value, context) ==
    Len(SelectSeq(seq, LAMBDA i :
        /\ i.severity = "CRITICAL" /\ i.category = "Expression" /\ i.element_id = id
        /\ i.message = <<"JUEL/UEL expression detected in ", <<context>>>>
        /\ i.details[2] = value))

\* the "must be converted to Job Worker" issues of seq for an element and a value
WorkerCount(seq, id, value) ==
    Len(SelectSeq(seq, LAMBDA i :
        /\ i.severity = "CRITICAL" /\ i.category = "Service Task" /\ i.element_id = id
        /\ i.message \in {<<"Delegate expression must be converted to Job Worker">>,
                          <<"Java delegate class must be converted to Job Worker">>}
        /\ i.details[2] = value))

ValidatedAttrs == {"camunda:delegateExpression", "camunda:expression"}

WorkerAttrs == {"camunda:delegateExpression", "camunda:class"}

\* C17 as stated: a legacy-syntax value of the delegate expression, of the
\* implementation class or of the expression attribute of a service task
\* yields a CRITICAL "Expression" issue and contributes its variables, and a
\* delegate expression or class yields the "Service Task" worker issue.
C17_ServiceTaskAsStated ==
    prior.group = "validate_service_tasks" =>
        \A k \in NodesOf("bpmn:serviceTask") :
            /\ \A a \in ValidatedAttrs \cup {"camunda:class"} :
                  LET v == AttrOf(NodeAt(k), a)
                  IN  (Present(v) /\ HasMarker(v)) =>
                          /\ \E i \in 1..Len(Appended) :
                                /\ Appended[i].category = "Expression"
                                /\ Appended[i].severity = "CRITICAL"
                                /\ Appended[i].element_id = IdOf(NodeAt(k))
                                /\ Appended[i].details[2] = v
                          /\ NamesOf(v) \ {<<>>} \subseteq process_variables
            /\ \A a \in WorkerAttrs :
                  Present(AttrOf(NodeAt(k), a)) =>
                      WorkerCount(Appended, IdOf(NodeAt(k)), AttrOf(NodeAt(k), a)) >= 1

\* C17 (amended): of a service task, the non-empty delegate expression and
\* expression attribute go through the expression validator (one CRITICAL
\* "Expression" issue per legacy-syntax value, and its variables); the
\* implementation class does not: no "Expression" issue and no variable comes
\* from it; a non-empty delegate expression or class yields one CRITICAL
\* "Service Task" worker issue.
C17_ServiceTask ==
    prior.group = "validate_service_tasks" =>
        LET tasks == NodesOf("bpmn:serviceTask")
            same(id, a, v) == Cardinality({l \in tasks :
                                  IdOf(NodeAt(l)) = id /\ AttrOf(NodeAt(l), a) = v})
            context(a) == IF a = "camunda:delegateExpression" THEN "delegateExpression"
                          ELSE "expression attribute"
        IN  /\ \A k \in tasks : \A a \in ValidatedAttrs :
                  LET v == AttrOf(NodeAt(k), a)
                  IN  (Present(v) /\ HasMarker(v)) =>
                          LegacyCount(Appended, IdOf(NodeAt(k)), v, context(a)) =
                              same(IdOf(NodeAt(k)), a, v)
            /\ \A k \in tasks : \A a \in WorkerAttrs :
                  LET v == AttrOf(NodeAt(k), a)
                  IN  Present(v) =>
                          WorkerCount(Appended, IdOf(NodeAt(k)), v) >=
                              same(IdOf(NodeAt(k)), a, v)
            /\ \A i \in 1..Len(Appended) :
                  Appended[i].category = "Expression" =>
                      \E k \in tasks : \E a \in ValidatedAttrs :
                          /\ Appended[i].element_id = IdOf(NodeAt(k))
                          /\ Appended[i].message[2] = <<context(a)>>
                          /\ Appended[i].details[2] = AttrOf(NodeAt(k), a)
            /\ Len(SelectSeq(Appended, LAMBDA i : i.category = "Service Task"
                                                  /\ i.severity = "CRITICAL")) =
                   SumOf([k \in tasks |->
                             Cardinality({a \in WorkerAttrs : Present(AttrOf(NodeAt(k), a))})],
                         tasks)
            /\ process_variables = prior.process_variables \cup
                   UNION {NamesOf(AttrOf(NodeAt(k), a)) \ {<<>>} :
                             k \in tasks, a \in ValidatedAttrs}

C17_Witness ==
    /\ prior.group = "validate_service_tasks"
    /\ \E k, l \in NodesOf("bpmn:serviceTask") :
          /\ AttrOf(NodeAt(k), "camunda:class") = v_class_expr
          /\ AttrOf(NodeAt(l), "camunda:delegateExpression") = x_myDelegate
    /\ LegacyCount(Appended, id_s2, x_myDelegate, "delegateExpression") = 1
    /\ WorkerCount(Appended, id_s1, v_class_expr) = 1
    /\ process_variables = {s_myDelegate}

----------------------------------------------------------------------------
(* Claims about the order of the rule groups.                               *)

\* what the validation methods leave in the order analyze() calls them
InSourceOrder == run_groups(doc.root, rule_groups, Fresh)

BagOf(seq) ==
    [t \in {IssueTuple(seq[i]) : i \in 1..Len(seq)} |->
        Cardinality({i \in 1..Len(seq) : IssueTuple(seq[i]) = t})]

\* C18 as stated: when the calls of the validation methods have ended, in
\* whatever order they were made, the multiset of issues and the set of
\* variables are those of the order of analyze().
C18_OrderIndependentAsStated ==
    pc \in {"done", "raised"} =>
        /\ BagOf(issues) = BagOf(InSourceOrder.issues)
        /\ process_variables = InSourceOrder.process_variables

\* C19 as stated: the issues of the report are sorted on (severity, category,
\* element id).  Whatever the order of the severities and of the categories,
\* a list sorted on that key keeps the issues of one severity together,
\* within them the issues of one category together, and within those the
\* element ids in non-decreasing order.
C19_SortedReportAsStated ==
    pc = "done" =>
        LET list == result.issues
            key(i) == <<list[i].severity, list[i].category>>
        IN  /\ \A i, j, k \in 1..Len(list) :
                  (i < j /\ j < k /\ list[i].severity = list[k].severity) =>
                      list[j].severity = list[i].severity
            /\ \A i, j, k \in 1..Len(list) :
                  (i < j /\ j < k /\ key(i) = key(k)) => key(j) = key(i)
            /\ \A i, j \in 1..Len(list) :
                  (i < j /\ key(i) = key(j)) =>
                      ~StrLess(list[j].element_id, list[i].element_id)

----------------------------------------------------------------------------
(* Claims about the statistics of a run.                                    *)

\* the statistics hold the counts of the analyzer's present lists
CountsOfLists ==
    /\ statistics.total_issues = Len(issues)
    /\ \A s \in {"CRITICAL", "WARNING", "INFO"} :
          statistics.issue_counts_by_severity[s] =
              Cardinality({i \in 1..Len(issues) : issues[i].severity = s})
    /\ DOMAIN statistics.issue_counts_by_category =
           {issues[i].category : i \in 1..Len(issues)}
    /\ \A c \in DOMAIN statistics.issue_counts_by_category :
          statistics.issue_counts_by_category[c] =
              Cardinality({i \in 1..Len(issues) : issues[i].category = c})
    /\ statistics.total_variables_detected = Cardinality(process_variables)

\* the statistics are absent, or the last rule group has completed and they
\* hold the counts of the lists, which are those of the report
StatisticsAbsentOrFinal ==
    \/ DOMAIN statistics = {}
    \/ /\ pc \in {"return", "done"}
       /\ prior.group = "validate_configurations"
       /\ CountsOfLists
       /\ pc = "done" => (result.statistics = statistics /\ result.issues = issues)

\* the statistics are written once in a run, from empty, after the rule groups
\* (and emptied by the construction of the next analyzer)
StatisticsWrittenOnce ==
    statistics' # statistics =>
        \/ DOMAIN statistics = {} /\ pc = "calculate_statistics" /\ pc' = "return"
        \/ DOMAIN statistics' = {} /\ run' = run + 1

\* C20: statistics are computed once per run, after all rule groups: in every
\* state of a run they are empty or equal to the counts of the complete final
\* issue list and variable set; never counts of a partial list.
C20_StatisticsOnce ==
    []StatisticsAbsentOrFinal /\ [][StatisticsWrittenOnce]_vars

C20_Witness ==
    /\ pc = "done"
    /\ DOMAIN statistics # {}
    /\ statistics.total_issues >= 3
    /\ statistics.issue_counts_by_severity["CRITICAL"] >= 1
    /\ statistics.issue_counts_by_severity["WARNING"] >= 1
    /\ statistics.total_variables_detected >= 1
    /\ run = 2

----------------------------------------------------------------------------
(* Claims about references that resolve to no element.                      *)

AllNodes == Descendants(doc.root.kids)

IdsOf(tag) == {AllNodes[i].attrs["id"] : i \in {j \in 1..Len(AllNodes) :
                  AllNodes[j].tag = tag /\ "id" \in DOMAIN AllNodes[j].attrs}}

KidsOf(n, tag) == {n.kids[i] : i \in {j \in 1..Len(n.kids) : n.kids[j].tag = tag}}

GatewayTags ==
    {"bpmn:exclusiveGateway", "bpmn:parallelGateway", "bpmn:inclusiveGateway",
     "bpmn:eventBasedGateway", "bpmn:complexGateway"}

EventTags ==
    {"bpmn:startEvent", "bpmn:endEvent", "bpmn:intermediateCatchEvent",
     "bpmn:intermediateThrowEvent", "bpmn:boundaryEvent"}

\* the outgoing flow identifiers of the gateways of the document
FlowRefs ==
    UNION {{o.text : o \in KidsOf(AllNodes[i], "bpmn:outgoing")} :
              i \in {j \in 1..Len(AllNodes) : AllNodes[j].tag \in GatewayTags}}

\* the values of attribute ref of the event definitions def of the events
EventRefs(def, ref) ==
    UNION {{AttrOf(d, ref) : d \in KidsOf(AllNodes[i], def)} :
              i \in {j \in 1..Len(AllNodes) : AllNodes[j].tag \in EventTags}}

UnresolvedFlowRefs == {f \in FlowRefs : Present(f) /\ f \notin IdsOf("bpmn:sequenceFlow")}

UnresolvedMessageRefs ==
    {m \in EventRefs("bpmn:messageEventDefinition", "messageRef") :
        Present(m) /\ m \notin IdsOf("bpmn:message")}

UnresolvedErrorRefs ==
    {e \in EventRefs("bpmn:errorEventDefinition", "errorRef") :
        Present(e) /\ e \notin IdsOf("bpmn:error")}

\* no issue of the checks behind the unresolved references
NoIssueForUnresolved ==
    /\ \A f \in UnresolvedFlowRefs : \A i \in 1..Len(issues) :
          issues[i].category = "Expression" =>
              issues[i].message[2] # <<"gateway condition on flow ", f>>
    /\ (UnresolvedMessageRefs # {}
        /\ UnresolvedMessageRefs = EventRefs("bpmn:messageEventDefinition", "messageRef"))
          => \A i \in 1..Len(issues) : issues[i].category # "Message Event"
    /\ (UnresolvedErrorRefs # {}
        /\ UnresolvedErrorRefs = EventRefs("bpmn:errorEventDefinition", "errorRef"))
          => \A i \in 1..Len(issues) : issues[i].category # "Error Event"

\* C21 as stated: a gateway flow reference, messageRef or errorRef that
\* resolves to no element produces no issue for its check and never aborts
\* the run: every rule group still executes and analyze() returns.
C21_UnresolvedSkippedAsStated ==
    (doc.wellformed
     /\ UnresolvedFlowRefs \cup UnresolvedMessageRefs \cup UnresolvedErrorRefs # {}) =>
        /\ pc # "raised"
        /\ NoIssueForUnresolved

----------------------------------------------------------------------------
(* Claims about the listeners.                                              *)

ListenerType(tag) ==
    IF tag = "camunda:taskListener" THEN "Task Listener" ELSE "Execution Listener"

\* the listeners of the document: <<k, j>> is child j of the extension block
\* of element k
ListenerSlots ==
    UNION {LET blocks == SelectSeq(AllNodes[k].kids,
                                   LAMBDA n : n.tag = "bpmn:extensionElements")
           IN  IF blocks = <<>> THEN {}
               ELSE {<<k, j>> : j \in {i \in 1..Len(blocks[1].kids) :
                        blocks[1].kids[i].tag \in {"camunda:taskListener",
                                                   "camunda:executionListener"}}} :
           k \in 1..Len(AllNodes)}

ListenerAt(s) ==
    SelectSeq(AllNodes[s[1]].kids, LAMBDA n : n.tag = "bpmn:extensionElements")[1].kids[s[2]]

OwnerId(s) == IdOf(AllNodes[s[1]])

ListenerAttrs == {"delegateExpression", "class", "expression"}

Carries(s) == \E a \in ListenerAttrs : Present(AttrOf(ListenerAt(s), a))

\* C22: after validate_listeners, every task or execution listener of an
\* extension block that carries a delegate expression, a class or an
\* expression has exactly one CRITICAL issue of its listener type on its
\* owning element; its delegate expression and expression, not its class, went
\* through the expression validator; a listener with none of the three has no
\* issue.
C22_Listeners ==
    prior.group = "validate_listeners" =>
        LET flagged == {s \in ListenerSlots : Carries(s)}
            validated == {<<s, a>> \in ListenerSlots \X {"delegateExpression", "expression"} :
                             Present(AttrOf(ListenerAt(s), a))}
            value(p) == AttrOf(ListenerAt(p[1]), p[2])
        IN  /\ \A s \in flagged :
                  CountIssues(Appended, "CRITICAL", ListenerType(ListenerAt(s).tag),
                              OwnerId(s)) =
                      Cardinality({t \in flagged :
                          /\ OwnerId(t) = OwnerId(s)
                          /\ ListenerAt(t).tag = ListenerAt(s).tag})
            /\ Len(SelectSeq(Appended, LAMBDA i : i.category # "Expression")) =
                   Cardinality(flagged)
            /\ \A p \in validated :
                  HasMarker(value(p)) =>
                      LegacyCount(Appended, OwnerId(p[1]), value(p),
                                  ListenerType(ListenerAt(p[1]).tag)) =
                          Cardinality({q \in validated :
                              /\ OwnerId(q[1]) = OwnerId(p[1])
                              /\ value(q) = value(p)
                              /\ ListenerAt(q[1]).tag = ListenerAt(p[1]).tag})
            /\ \A i \in 1..Len(Appended) :
                  Appended[i].category = "Expression" =>
                      \E p \in validated :
                          /\ Appended[i].element_id = OwnerId(p[1])
                          /\ Appended[i].details[2] = value(p)
            /\ process_variables = prior.process_variables \cup
                   UNION {NamesOf(value(p)) \ {<<>>} : p \in validated}

C22_Witness ==
    /\ prior.group = "validate_listeners"
    /\ \E s, t, u \in ListenerSlots :
          /\ AttrOf(ListenerAt(s), "class") = v_class_expr
          /\ ~Present(AttrOf(ListenerAt(s), "expression"))
          /\ ~Carries(t)
          /\ AttrOf(ListenerAt(u), "delegateExpression") = v_listener_expr
    /\ CountIssues(Appended, "CRITICAL", "Task Listener", id_u1) = 2
    /\ CountIssues(Appended, "CRITICAL", "Execution Listener", id_s1) = 1
    /\ Len(ExpressionIssues(Appended)) = 2

\* the INFO "already compatible" issues of seq for an element
CompatibleIssues(seq, id) ==
    SelectSeq(seq, LAMBDA i :
        /\ i.severity = "INFO" /\ i.category = "Service Task" /\ i.element_id = id
        /\ i.message = <<"External task pattern already compatible">>)

IsExternal(n) == AttrOf(n, "camunda:type") = s_external

\* C23 as stated: a service task has the INFO "already compatible" issue
\* exactly when it carries the external type together with a topic, and the
\* issue notes that topic; without a topic attribute there is no such issue.
C23_ExternalTaskAsStated ==
    prior.group = "validate_service_tasks" =>
        \A k \in NodesOf("bpmn:serviceTask") :
            LET id == IdOf(NodeAt(k))
                with_topic == {l \in NodesOf("bpmn:serviceTask") :
                                  /\ IdOf(NodeAt(l)) = id
                                  /\ IsExternal(NodeAt(l))
                                  /\ "camunda:topic" \in DOMAIN NodeAt(l).attrs}
                found == CompatibleIssues(Appended, id)
            IN  /\ Len(found) = Cardinality(with_topic)
                /\ \A i \in 1..Len(found) :
                      \E l \in with_topic : found[i].details[2] = NodeAt(l).attrs["camunda:topic"]

----------------------------------------------------------------------------
(* Claims about the files of the upload handler.                            *)

Returned(r) == requests[r].pc = "responded"

Saved(r) == requests[r].filepath # <<>>

InFlight(q) == requests[q].pc \in {"saved", "analyzed", "removed", "except", "except_remove"}

Rejectable(input) ==
    ~input.has_file \/ input.filename = <<>> \/ ~allowed_file(input.filename)

\* C24: when the handler of a request that saved its upload has returned
\* (success, parse failure or exception after the save), the file it saved is
\* gone: a file at its path can only be one saved later by a request still
\* being handled, and once every request has returned the folder is empty.  A
\* request rejected for a missing file, an empty name or a disallowed
\* extension saved nothing and ran no analysis.
C24_UploadCleanup ==
    /\ \A r \in Requests :
          (Returned(r) /\ Saved(r) /\ requests[r].filepath \in DOMAIN uploads) =>
              \E q \in Requests \ {r} :
                  /\ InFlight(q)
                  /\ requests[q].filepath = requests[r].filepath
                  /\ requests[q].pc # "removed"
    /\ (\A r \in Requests : Returned(r)) => uploads = EmptyDict
    /\ \A r \in Requests :
          Rejectable(requests[r].input) =>
              /\ ~Saved(r)
              /\ requests[r].result = EmptyDict
              /\ requests[r].pc \in {"received", "responded"}
              /\ Returned(r) => requests[r].response.status = 400
    /\ \A r \in Requests :
          (Returned(r) /\ ~Rejectable(requests[r].input)) => Saved(r)

C24_Witness ==
    /\ \A r \in Requests : Returned(r) /\ Saved(r)
    /\ requests["r1"].response.status = 500
    /\ requests["r2"].response.status = 200
    /\ requests["r1"].filepath # requests["r2"].filepath
    /\ ~requests["r2"].input.content.wellformed
    /\ uploads = EmptyDict

----------------------------------------------------------------------------
(* Claims about repeated calls on one analyzer.                             *)

\* C25 as stated: the reports of two calls of analyze() on the same
\* BPMNAnalyzer hold the same multiset of issues, the same statistics and the
\* same variables.
C25_SecondAnalyzeAsStated ==
    \A i, j \in 1..Len(reports) :
        (DOMAIN reports[i] = DOMAIN reports[j] /\ "issues" \in DOMAIN reports[i]) =>
            /\ BagOf(reports[i].issues) = BagOf(reports[j].issues)
            /\ reports[i].statistics = reports[j].statistics
            /\ reports[i].process_variables = reports[j].process_variables

----------------------------------------------------------------------------
(* Claims about the steps of a run.                                         *)

IsPrefix(a, b) == Len(a) <= Len(b) /\ SubSeq(b, 1, Len(a)) = a

\* a step of a run leaves the issues it found in place and in order, keeps
\* every variable name, and, once the document is parsed, leaves the tree alone
AppendOnlyStep ==
    run' = run =>
        /\ IsPrefix(issues, issues')
        /\ process_variables \subseteq process_variables'
        /\ doc' = doc
        /\ pc # "analyze" => root' = root

\* C26: within a run every rule-group step only appends: no issue of the list
\* is removed, moved or changed, no variable name is removed and the parsed
\* document is unchanged, so the issue list of a step is a prefix of the list
\* of every later step of the run.
C26_AppendOnly == [][AppendOnlyStep]_vars

C26_Witness ==
    /\ pc = "validate_user_tasks"
    /\ prior.group = "validate_script_tasks"
    /\ Len(prior.issues) >= 2
    /\ Len(issues) > Len(prior.issues)
    /\ IsPrefix(prior.issues, issues)
    /\ process_variables # prior.process_variables

====
